---- MODULE Spec2Model ----
(***************************************************************************)
(* Page-traversal and session state machine of the LinkedIn people-search   *)
(* scraper: the content script that the manifest loads (state.js,           *)
(* pagination.js, controller.js, messageBridge.js, entry.js, storageApi.js),*)
(* the background message handler and the popup's message listener.         *)
(*                                                                          *)
(* One browser tab is modelled.  A page instance is the content script of   *)
(* one loaded document: its module-level variables (mem), its pending       *)
(* settle timer and its suspended async pipelines die with the document.    *)
(* sessionStorage (ss) survives full page loads of the tab.                 *)
(***************************************************************************)
EXTENDS Integers, Sequences, FiniteSets

\* ------------------------------------------------------------------ bounds
\* Highest page number of the listing and of a page parameter in a URL.
MaxPage == 2
\* Async pipelines (startScraping activations, resumed callbacks) that can
\* be suspended in one page instance at the same time.
MaxPipes == 2
\* Messages waiting in the background's and in the popup's inbox.
MaxInbox == 1
\* Valid profiles one page can yield.
MaxProfiles == 1
\* Largest maxTries passed to ensureNextButtonReady besides the default.
MaxTriesArg == 5
\* Requests that reach the background while the database is being opened.
MaxRequests == 2
\* Calls of indexedDB.open by one database object.
MaxOpens == 3
\* Records in an imported file.
MaxFileLen == 2
\* Longest profile link, in tokens.
MaxUrlLen == 3
\* Result items the validation loop handles on one page.
MaxCands == 2
\* Latest reading of Date.now().
MaxClock == 2
\* Tabs that send save requests at the same time.
MaxTabs == 2
\* Distinct profile ids in the save requests.
MaxIds == 2
\* Profiles in one save request.
MaxBatch == 2
\* Calls of extractProfileId on one clean URL.
MaxCalls == 2
\* List items (li elements) of one document.
MaxElems == 2
\* Values of Math.random() that are told apart: k / RandomGrain.
RandomGrain == 1000
\* Calls of initializeMessageBridge that are counted in one page instance,
\* and re-initializations that can be pending at once.
MaxInits == 3

\* ------------------------------------------------------- program constants
\* MAX_CONSECUTIVE_EMPTY_PAGES of the monolithic content script
EmptyPageThreshold == 3

\* ensureNextButtonReady(maxTries = 10)
DefaultMaxTries == 10
\* ModuleLoader: this.maxRetries, this.retryDelay and the sleep of
\* attemptModuleReload, in milliseconds.
DefaultMaxRetries == 3
RetryDelay == 1000
ReloadWait == 500
\* The sleep of one round of ensureNextButtonReady, in milliseconds.
ScrollWait == 800

\* sessionStorage keys (STORAGE_KEYS)
ACTIVE == "scraperActive"
STOPPED == "scraperStopped"
CURRENT_PAGE == "scraperCurrentPage"
TOTAL_PAGES == "scraperTotalPages"

VARIABLES
    ss,         \* sessionStorage of the tab: a partial map key -> string
    loc,        \* location of the document: [path, query, page]
    dom,        \* what the document shows: [next] (enabled Next control)
    phase,      \* "loading" (document loaded, content script not yet run),
                \* "ready" (content script initialised), "noscript"
    mem,        \* module-level variables of state.js in this page instance
    timer,      \* the browser timer behind continueScrapingTimeout
    pipes,      \* the suspended async pipelines of this page instance
    bgInbox,    \* runtime messages sent to the background, not yet handled
    popupInbox, \* runtime messages the background sent towards the popup
    popup,      \* the popup controller: [isScrapingActive, message]
    totalKnown, \* history: getTotalPages found an indicator for the session
    stopHandled,\* history: this page instance handled STOP_SCRAPING after
                \* its load and after its last accepted start
    ev,         \* history: what the last step did
    emptyRun,   \* history: consecutive pages of the current session, up to
                \* this one, whose extraction yielded no valid profile
    overlap,    \* scenario: a start may be accepted while an earlier
                \* activation of this page instance is still suspended
    profileData,        \* validation loop: the candidate of the last
                        \* iteration, <<>> before the first
    validatedProfiles,  \* validation loop: the profiles pushed so far
    iterations,         \* validation loop: iterations done
    request,            \* validation loop: the data of the SAVE_PROFILES
                        \* request sent for the page, <<>> before: <<data>>
    store,      \* IndexedDB: [exists, records], the "profiles" object store
    conn,       \* background: this.db is an open connection
    handlers,   \* background: per tab, the SAVE_PROFILES handler instance
    lastWrite,  \* history: per id, the record of the last put: <<>> or <<r>>
    urlIn,      \* url functions: the links of two result items
    cleanUrls,  \* url functions: per link, <<>> before cleanProfileUrl was
                \* called, then <<its result>>
    profileIds, \* url functions: per link, the results of the calls of
                \* extractProfileId on the clean URL, the empty sequence
                \* for null
    document,   \* extractor: what the selectors find in the document
    searchResults, \* extractor: the result containers chosen
    extractedProfiles, \* extractor: the candidates pushed so far, by
                \* container
    visited,    \* extractor: containers the forEach has handled
    exPc,       \* extractor: "start", "items", "returned"
    delay,      \* getRandomDelay: <<>> before the first call, then <<the
                \* last result>>
    listeners,  \* message bridge: the listeners registered on
                \* chrome.runtime.onMessage by this page instance
    bridgeTimers, \* message bridge: pending re-initializations scheduled by
                \* handleNavigation
    inits,      \* history: calls of initializeMessageBridge in this page
                \* instance
    response,   \* history: what the last step passed to sendResponse
    invoked,    \* history: the controller operation the last step called
    delivered,  \* history: the type of the message the last step delivered
    maxTries,   \* ensureNextButtonReady: the argument
    tryIndex,   \* ensureNextButtonReady: the loop variable i
    nextButton, \* ensureNextButtonReady: what hasNextPage() finds now
    readyPc,    \* ensureNextButtonReady: "idle", "called", "loop",
                \* "sleeping", "returned"
    waits,      \* history: the durations of the sleeps so far
    lastCheck,  \* history: <<>> or <<the last result of hasNextPage()>>
    readyResult,\* <<>> or <<the value returned>>
    browserTabs, \* stop relay: the open tabs, each [url, active, listening,
                \* session]
    stopInFlight, \* stop relay: tabs a STOP_SCRAPING is on its way to
    stopResponse,\* stop relay: <<>> or <<tabsNotified of the response>>
    maxRetries, \* ModuleLoader: this.maxRetries
    exponentialBackoff, \* ModuleLoader: this.exponentialBackoff
    loadAttempts, \* ModuleLoader: this.loadAttempts
    failureReasons, \* ModuleLoader: what each failed check found missing
    modules,    \* what window holds now: "all" required modules, all but
                \* "optional" ones, or not even the "critical" ones
    loaderPc,   \* loadModulesWithRetry: "idle", "check", "sleeping",
                \* "reloading", "returned"
    loaderSleeps, \* history: the sleeps so far, each [kind, ms]
    loadResult, \* "none", or what loadModulesWithRetry returned
    dbOpen,     \* ProfileDatabase: this.db holds an open connection
    isInitializing, \* ProfileDatabase: this.isInitializing
    initPromise, \* ProfileDatabase: this.initPromise, 0 (null) or the
                \* number of the init() call that made it
    promises,   \* the init() calls so far: "pending", "resolved" or
                \* "rejected" each
    callers,    \* per caller of ensureInitialization (0: the constructor):
                \* [pc, promise]
    importFile, \* import: JSON.parse(text) of the chosen file:
                \* [isArray, records]
    importStore, \* import: the records of the object store
    importStore0, \* history: the records of the store before the import
    importRequest, \* import: <<>> or <<msg.data of the IMPORT_JSON sent>>
    importPc    \* import: "idle", "chosen", "rejected", "sent", "done",
                \* "failed"

\* The validation loop of one page, looked at record by record.
validatorVars == <<profileData, validatedProfiles, iterations, request>>

\* The background's database, looked at record by record.
storeVars == <<store, conn, handlers, lastWrite>>

\* utils.js, looked at call by call.
urlVars == <<urlIn, cleanUrls, profileIds>>

\* extractProfilesFromPage, looked at container by container.
extractorVars == <<document, searchResults, extractedProfiles, visited, exPc>>

\* getRandomDelay, looked at call by call.
delayVars == <<delay>>

\* The registration of the runtime-message listener.
bridgeVars == <<listeners, bridgeTimers, inits, response, invoked, delivered>>

\* ensureNextButtonReady, looked at round by round.
readyVars == <<maxTries, tryIndex, nextButton, readyPc, waits, lastCheck, readyResult>>

\* The STOP_SCRAPING relay of the background, looked at tab by tab.
relayVars == <<browserTabs, stopInFlight, stopResponse>>

\* loadModulesWithRetry, looked at check by check.
loaderVars == <<maxRetries, exponentialBackoff, loadAttempts, failureReasons, modules,
      loaderPc, loaderSleeps, loadResult>>

\* ensureInitialization, looked at caller by caller.
dbInitVars == <<dbOpen, isInitializing, initPromise, promises, callers>>

\* handleFileImport and the IMPORT_JSON handler, looked at file by file.
importVars == <<importFile, importStore, importStore0, importRequest, importPc>>

\* What no step of a page instance, of the background relay or of the popup
\* changes.
still == <<overlap, validatorVars, storeVars, urlVars, extractorVars, delayVars, bridgeVars, readyVars, relayVars, loaderVars, dbInitVars, importVars>>

\* The page instance, the relay and the popup.
sessionVars ==
    <<ss, loc, dom, phase, mem, timer, pipes, bgInbox, popupInbox, popup,
      totalKnown, stopHandled, ev, emptyRun, overlap>>

\* What the steps of one component leave alone: the variables of all
\* others.
exceptValidator ==
    <<sessionVars, storeVars, urlVars,
    extractorVars,
    delayVars,
    bridgeVars,
    readyVars,
    relayVars,
    loaderVars,
    dbInitVars,
    importVars>>
exceptStore ==
    <<sessionVars, validatorVars, urlVars,
    extractorVars,
    delayVars,
    bridgeVars,
    readyVars,
    relayVars,
    loaderVars,
    dbInitVars,
    importVars>>
exceptUrl ==
    <<sessionVars, validatorVars, storeVars,
    extractorVars,
    delayVars,
    bridgeVars,
    readyVars,
    relayVars,
    loaderVars,
    dbInitVars,
    importVars>>

exceptExtractor ==
    <<sessionVars, validatorVars, storeVars, urlVars,
    delayVars,
    bridgeVars,
    readyVars,
    relayVars,
    loaderVars,
    dbInitVars,
    importVars>>

exceptDelay ==
    <<sessionVars, validatorVars, storeVars, urlVars, extractorVars,
    bridgeVars,
    readyVars,
    relayVars,
    loaderVars,
    dbInitVars,
    importVars>>

\* What a step through the message bridge leaves alone besides the page
\* instance.
exceptBridgeAndSession ==
    <<overlap, validatorVars, storeVars, urlVars, extractorVars, delayVars,
    readyVars,
    relayVars,
    loaderVars,
    dbInitVars,
    importVars>>

exceptReady ==
    <<sessionVars, validatorVars, storeVars, urlVars, extractorVars, delayVars, bridgeVars,
    relayVars,
    loaderVars,
    dbInitVars,
    importVars>>

exceptRelay ==
    <<sessionVars, validatorVars, storeVars, urlVars, extractorVars, delayVars, bridgeVars, readyVars,
    loaderVars,
    dbInitVars,
    importVars>>

exceptLoader ==
    <<sessionVars, validatorVars, storeVars, urlVars, extractorVars, delayVars, bridgeVars, readyVars, relayVars,
    dbInitVars,
    importVars>>

exceptDbInit ==
    <<sessionVars, validatorVars, storeVars, urlVars, extractorVars, delayVars, bridgeVars, readyVars, relayVars, loaderVars,
    importVars>>

exceptImport ==
    <<sessionVars, validatorVars, storeVars, urlVars, extractorVars, delayVars, bridgeVars, readyVars, relayVars, loaderVars, dbInitVars>>

vars == <<ss, loc, dom, phase, mem, timer, pipes, bgInbox, popupInbox, popup,
          totalKnown, stopHandled, ev, emptyRun, still>>

\* ----------------------------------------------------- strings and numbers
\* A decimal string is the sequence of its digits: (12).toString() is <<1, 2>>.
RECURSIVE NumToString(_)
NumToString(n) ==
    IF n < 10 THEN <<n>> ELSE Append(NumToString(n \div 10), n % 10)

\* parseInt of a string of decimal digits.
RECURSIVE ParseInt(_)
ParseInt(s) ==
    IF Len(s) = 0 THEN 0
    ELSE 10 * ParseInt(SubSeq(s, 1, Len(s) - 1)) + s[Len(s)]

\* ---------------------------------------------------------- sessionStorage
GetItemIsTrue(s, k) == k \in DOMAIN s /\ s[k] = "true"

SetItem(s, k, v) == [x \in (DOMAIN s) \cup {k} |-> IF x = k THEN v ELSE s[x]]

RemoveItem(s, k) == [x \in (DOMAIN s) \ {k} |-> s[x]]

EmptyStorage == [x \in {} |-> "true"]

\* sessionStorage belongs to the tab, not to one page instance: what the
\* first modelled document finds there is an input.  Besides the empty
\* storage, a stored session that carries the stopped flag next to the
\* active flag and the page keys.
StaleStoppedSession ==
    [x \in {STOPPED, ACTIVE, CURRENT_PAGE, TOTAL_PAGES} |->
        IF x \in {STOPPED, ACTIVE} THEN "true" ELSE <<MaxPage>>]

\* ------------------------------------------------------------ the location
\* path: "people/" is /search/results/people/ (the only path the manifest
\* injects the content script on), "people" is /search/results/people
\* without the trailing slash, "other" is any other LinkedIn path, reached
\* by an in-page (pushState) navigation.  page = 0: no page parameter; the
\* page parameters are the ones the site and navigateToNextPage write.
\* The listing with and without a query and with each page parameter, and
\* one other page.
Locations ==
    {[path |-> "people/", query |-> FALSE, page |-> 0]}
    \cup {[path |-> "people/", query |-> TRUE, page |-> n] : n \in 0..MaxPage}
    \cup {[path |-> "other", query |-> FALSE, page |-> 0]}

\* The manifest's content_scripts.matches.
ManifestMatches(l) == l.path = "people/"

\* The page number the site shows for a location.
ShownPage(l) == IF l.page = 0 THEN 1 ELSE l.page

\* The Next control is enabled only before the listing's last page.
NextChoices(l) == IF ShownPage(l) < MaxPage THEN BOOLEAN ELSE {FALSE}

\* ------------------------------------------------------------ page instance
FreshMem ==
    [isScrapingActive |-> FALSE, currentPage |-> 1, totalPages |-> 1,
     scrapingInProgress |-> FALSE, continueScrapingTimeout |-> FALSE]

\* A pipeline: where it is suspended (pc), which function it runs (kind),
\* the scroll rounds done by ensureNextButtonReady (tries) and, while it
\* sleeps in navigateToNextPage, the target page and path it computed.
FreePipe ==
    [pc |-> "free", kind |-> "none", tries |-> 0, next |-> 0, url |-> "none"]

NoPipes == [p \in 1..MaxPipes |-> FreePipe]

\* No validation loop is being looked at.
ValidatorIdle ==
    /\ profileData = <<>>
    /\ validatedProfiles = <<>>
    /\ iterations = 0
    /\ request = <<>>

\* The database before its first use: no object store, no connection, no
\* request being handled.
StoreIdle ==
    /\ store = [exists |-> FALSE, records |-> {}]
    /\ conn = FALSE
    /\ handlers = [t \in 1..MaxTabs |->
                     [pc |-> "idle", data |-> <<>>, total |-> 0]]
    /\ lastWrite = [i \in 1..MaxIds |-> <<>>]

\* No url function has been called.
UrlIdle ==
    /\ urlIn = <<<<>>, <<>>>>
    /\ cleanUrls = <<<<>>, <<>>>>
    /\ profileIds = <<<<>>, <<>>>>

\* extractProfilesFromPage has not been called.
ExtractorIdle ==
    /\ document = [chameleon |-> <<>>, plain |-> <<>>, item |-> <<>>]
    /\ searchResults = <<>>
    /\ extractedProfiles = <<>>
    /\ visited = 0
    /\ exPc = "start"

\* getRandomDelay has not been called.
DelayIdle == delay = <<>>

\* No message bridge has been initialized.
BridgeIdle ==
    /\ listeners = <<>>
    /\ bridgeTimers = 0
    /\ inits = 0
    /\ response = "none"
    /\ invoked = "none"
    /\ delivered = "none"

\* No call of ensureNextButtonReady is being looked at.
ReadyIdle ==
    /\ maxTries = 0
    /\ tryIndex = 0
    /\ nextButton = FALSE
    /\ readyPc = "idle"
    /\ waits = <<>>
    /\ lastCheck = <<>>
    /\ readyResult = <<>>

\* No stop relay is being looked at.
RelayIdle ==
    /\ browserTabs = <<>>
    /\ stopInFlight = {}
    /\ stopResponse = <<>>

\* No module loading is being looked at.
LoaderIdle ==
    /\ maxRetries = 0
    /\ exponentialBackoff = FALSE
    /\ loadAttempts = 0
    /\ failureReasons = <<>>
    /\ modules = "all"
    /\ loaderPc = "idle"
    /\ loaderSleeps = <<>>
    /\ loadResult = "none"

\* No initialization of the database object is being looked at.
DbInitIdle ==
    /\ dbOpen = FALSE
    /\ isInitializing = FALSE
    /\ initPromise = 0
    /\ promises = <<>>
    /\ callers = <<>>

\* No import is being looked at.
ImportIdle ==
    /\ importFile = [isArray |-> FALSE, records |-> <<>>]
    /\ importStore = {}
    /\ importStore0 = {}
    /\ importRequest = <<>>
    /\ importPc = "idle"

Init ==
    /\ ss \in {EmptyStorage, StaleStoppedSession}
    /\ loc \in {l \in Locations : ManifestMatches(l)}
    /\ dom \in [next : NextChoices(loc)]
    /\ phase = "loading"
    /\ mem = FreshMem
    /\ timer = "none"
    /\ pipes = NoPipes
    /\ bgInbox = <<>>
    /\ popupInbox = <<>>
    /\ popup = [isScrapingActive |-> FALSE, message |-> "none"]
    /\ totalKnown = FALSE
    /\ stopHandled = FALSE
    /\ ev = "other"
    /\ emptyRun = 0
    /\ overlap = FALSE
    /\ ValidatorIdle
    /\ StoreIdle
    /\ ImportIdle
    /\ DbInitIdle
    /\ LoaderIdle
    /\ RelayIdle
    /\ ReadyIdle
    /\ BridgeIdle
    /\ DelayIdle
    /\ ExtractorIdle
    /\ UrlIdle

\* ------------------------------------------------------------- state.js
\* initializeScrapingState(page, total): the module variables after it.
InitializeScrapingStateMem(m, page, total) ==
    [m EXCEPT !.isScrapingActive = TRUE, !.scrapingInProgress = TRUE,
              !.currentPage = page, !.totalPages = total]

\* initializeScrapingState(page, total) that leaves the stopped flag.
InitializeScrapingStateStorage_KeepsStopped(s, page, total) ==
    SetItem(SetItem(SetItem(s,
        ACTIVE, "true"),
        CURRENT_PAGE, NumToString(page)),
        TOTAL_PAGES, NumToString(total))

\* initializeScrapingState(page, total): sessionStorage after it.
InitializeScrapingStateStorage(s, page, total) ==
    SetItem(SetItem(SetItem(RemoveItem(s, STOPPED),
        ACTIVE, "true"),
        CURRENT_PAGE, NumToString(page)),
        TOTAL_PAGES, NumToString(total))

\* stopScrapingState() that resets only the in-memory flags: the timer is
\* not cleared and sessionStorage is not touched.
StopScrapingState_MemoryOnly(m, t, s) ==
    [mem |-> [m EXCEPT !.isScrapingActive = FALSE,
                       !.scrapingInProgress = FALSE],
     timer |-> t,
     ss |-> s]

\* stopScrapingState() that forgets to remove the page keys.
StopScrapingState_KeepsPageKeys(m, t, s) ==
    [mem |-> [m EXCEPT !.isScrapingActive = FALSE,
                       !.scrapingInProgress = FALSE,
                       !.continueScrapingTimeout = FALSE],
     timer |-> IF m.continueScrapingTimeout /\ t = "pending"
               THEN "cancelled" ELSE t,
     ss |-> SetItem(RemoveItem(s, ACTIVE), STOPPED, "true")]

\* stopScrapingState() that leaves the active flag in sessionStorage.
StopScrapingState_KeepsActive(m, t, s) ==
    [mem |-> [m EXCEPT !.isScrapingActive = FALSE,
                       !.scrapingInProgress = FALSE,
                       !.continueScrapingTimeout = FALSE],
     timer |-> IF m.continueScrapingTimeout /\ t = "pending"
               THEN "cancelled" ELSE t,
     ss |-> SetItem(RemoveItem(RemoveItem(s, CURRENT_PAGE), TOTAL_PAGES),
                    STOPPED, "true")]

\* stopScrapingState(): module variables, timer and sessionStorage after it.
StopScrapingState(m, t, s) ==
    [mem |-> [m EXCEPT !.isScrapingActive = FALSE,
                       !.scrapingInProgress = FALSE,
                       !.continueScrapingTimeout = FALSE],
     timer |-> IF m.continueScrapingTimeout /\ t = "pending"
               THEN "cancelled" ELSE t,
     ss |-> SetItem(RemoveItem(RemoveItem(RemoveItem(s, ACTIVE),
                CURRENT_PAGE), TOTAL_PAGES), STOPPED, "true")]

\* isScrapingStopped()
IsScrapingStopped(s) == GetItemIsTrue(s, STOPPED)

\* checkShouldContinue()
CheckShouldContinue(s) ==
    IF GetItemIsTrue(s, STOPPED) THEN FALSE ELSE GetItemIsTrue(s, ACTIVE)

\* restoreStateFromSession(): parseInt(getItem(key) || "1")
RestoreStateFromSession(m, s) ==
    [m EXCEPT
        !.currentPage = ParseInt(IF CURRENT_PAGE \in DOMAIN s
                                 THEN s[CURRENT_PAGE] ELSE <<1>>),
        !.totalPages = ParseInt(IF TOTAL_PAGES \in DOMAIN s
                                THEN s[TOTAL_PAGES] ELSE <<1>>),
        !.isScrapingActive = TRUE,
        !.scrapingInProgress = TRUE]

\* --------------------------------------------------------- pagination.js
\* What the pagination-indicator strategies find in the document; <<>> is
\* "no element / no match".  pageState is the "Page X of Y" text <<X, Y>>,
\* trailingButton the bare number of the last page button, indicatorLast
\* the number of the last page-indicator button, currentIndicator the
\* number of the current-page indicator.
Opt(S) == {<<>>} \cup {<<x>> : x \in S}

Readings ==
    [pageState : {<<>>} \cup {<<x, y>> : x \in 1..MaxPage, y \in 1..MaxPage},
     trailingButton : Opt(1..MaxPage),
     indicatorLast : Opt(1..MaxPage),
     currentIndicator : Opt(1..MaxPage)]

\* getTotalPages()
GetTotalPages(r) ==
    IF r.pageState # <<>> THEN r.pageState[2]
    ELSE IF r.trailingButton # <<>> THEN r.trailingButton[1]
    ELSE IF r.indicatorLast # <<>> THEN r.indicatorLast[1]
    ELSE 1

\* Some pagination-indicator strategy yields a total.
TotalIndicated(r) ==
    r.pageState # <<>> \/ r.trailingButton # <<>> \/ r.indicatorLast # <<>>

\* getCurrentPage()
GetCurrentPage(l, r) ==
    IF l.page # 0 THEN l.page
    ELSE IF r.pageState # <<>> THEN r.pageState[1]
    ELSE IF r.currentIndicator # <<>> THEN r.currentIndicator[1]
    ELSE 1

\* The page infos startScraping can read off a document at location l:
\* getCurrentPage(), getTotalPages(), and whether a total was indicated.
PageInfos(l) ==
    {[cur |-> GetCurrentPage(l, r), tot |-> GetTotalPages(r),
      known |-> TotalIndicated(r)] : r \in Readings}

\* hasNextPage()
HasNextPage(d) == d.next

\* ---------------------------------------------------------- controller.js
\* isValidPeopleSearchPage() that accepts every page.
IsValidPeopleSearchPage_Any(l) == TRUE

\* isValidPeopleSearchPage()
IsValidPeopleSearchPage(l) ==
    \/ l.path = "people/"
    \/ l.path = "people" /\ l.query

\* The continuation test with <= for <.
ShouldNavigate_Inclusive(cur, tot, next) == cur <= tot \/ next

\* The continuation test of startScraping and of the resumed callback:
\* currentPage < totalPages || hasNextPage()
ShouldNavigate(cur, tot, next) == cur < tot \/ next

\* The final check of navigateToNextPage, after its sleep (isScrapingActive
\* is the literal true both callers pass), with no check at all.
NavigationStillWanted_Unchecked(s) == TRUE

\* The final check of navigateToNextPage, after its sleep.
NavigationStillWanted(s) ==
    GetItemIsTrue(s, ACTIVE) /\ ~GetItemIsTrue(s, STOPPED)

\* checkContinueScraping() that looks at the active flag only, never at
\* the stopped flag.
CheckContinueScraping_ActiveOnly(m, t, s, l) ==
    IF ~GetItemIsTrue(s, ACTIVE)
        THEN [mem |-> m, timer |-> t, resumed |-> FALSE]
    ELSE IF ~IsValidPeopleSearchPage(l)
        THEN [mem |-> m, timer |-> t, resumed |-> FALSE]
    ELSE [mem |-> [RestoreStateFromSession(m, s)
                     EXCEPT !.continueScrapingTimeout = TRUE],
          timer |-> "pending", resumed |-> TRUE]

\* checkContinueScraping() up to the scheduling of the settle delay: the
\* module variables and the timer after it, and whether it resumed.
CheckContinueScraping(m, t, s, l) ==
    IF IsScrapingStopped(s) THEN [mem |-> m, timer |-> t, resumed |-> FALSE]
    ELSE IF ~CheckShouldContinue(s)
        THEN [mem |-> m, timer |-> t, resumed |-> FALSE]
    ELSE IF ~IsValidPeopleSearchPage(l)
        THEN [mem |-> m, timer |-> t, resumed |-> FALSE]
    ELSE [mem |-> [RestoreStateFromSession(m, s)
                     EXCEPT !.continueScrapingTimeout = TRUE],
          timer |-> "pending", resumed |-> TRUE]

\* ------------------------------------------------------------- messages
\* from: the pipeline that awaits the response, 0 when nobody does.
SaveProfilesMsg(n, p) == [type |-> "SAVE_PROFILES", data |-> n, from |-> p]

\* saveProfiles(profiles) that sends nothing for an empty list.
SaveProfiles_SkipsEmpty(n, p) ==
    IF n = 0 THEN <<>> ELSE <<SaveProfilesMsg(n, p)>>

\* saveProfiles(profiles): the requests it sends, for n valid profiles, from
\* pipeline p: always one, "even with empty arrays".
SaveProfiles(n, p) == <<SaveProfilesMsg(n, p)>>

ScrapeDoneMsg == [type |-> "SCRAPE_DONE", data |-> 0, from |-> 0]

\* The sender's document is gone: no response can reach it.
Orphaned(q) == [i \in 1..Len(q) |-> [q[i] EXCEPT !.from = 0]]

RemoveAt(q, i) == SubSeq(q, 1, i - 1) \o SubSeq(q, i + 1, Len(q))

\* ------------------------------------------------------------ pipelines
\* A new activation can be suspended: without overlap only when no earlier
\* one is.
HasFreePipe ==
    IF overlap THEN \E p \in 1..MaxPipes : pipes[p].pc = "free"
    ELSE \A p \in 1..MaxPipes : pipes[p].pc = "free"

FirstFreePipe ==
    CHOOSE p \in 1..MaxPipes :
        /\ pipes[p].pc = "free"
        /\ \A q \in 1..(p - 1) : pipes[q].pc # "free"

\* A full page load: the document, its module variables, its timer and its
\* pipelines are replaced; sessionStorage stays.
LoadDocument(l) ==
    /\ loc' = l
    /\ dom' \in [next : NextChoices(l)]
    /\ phase' = IF ManifestMatches(l) THEN "loading" ELSE "noscript"
    /\ mem' = FreshMem
    /\ timer' = "none"
    /\ pipes' = NoPipes
    /\ bgInbox' = Orphaned(bgInbox)
    /\ stopHandled' = FALSE

\* ---------------------------------------------------------------- entry.js
\* initializeScraperSystem(): runs once per loaded document.
InitializeScraperSystem ==
    /\ phase = "loading"
    /\ phase' = "ready"
    /\ LET r == IF IsValidPeopleSearchPage(loc)
                THEN CheckContinueScraping(mem, timer, ss, loc)
                ELSE [mem |-> mem, timer |-> timer, resumed |-> FALSE]
       IN /\ mem' = r.mem
          /\ timer' = r.timer
          /\ ev' = IF r.resumed THEN "resume" ELSE "load"
    /\ UNCHANGED <<emptyRun, ss, loc, dom, pipes, bgInbox, popupInbox, popup,
                   totalKnown, stopHandled>>

\* The content script runs in a loaded document.
EntryInit == InitializeScraperSystem /\ UNCHANGED still

\* ------------------------------------------ controller.js: startScraping
\* startScraping without its in-progress guard.
AlreadyInProgress_Never(m) == FALSE

\* The guard of startScraping: "Scraping already in progress".
AlreadyInProgress(m) == m.scrapingInProgress

\* START_SCRAPING handled by the page instance: startScraping() up to its
\* first await (the SAVE_PROFILES request).
StartScraping ==
    /\ phase = "ready"
    /\ IF AlreadyInProgress(mem)
       THEN /\ ev' = "startIgnored"
            /\ UNCHANGED <<emptyRun, ss, loc, dom, phase, mem, timer, pipes, bgInbox,
                           popupInbox, popup, totalKnown, stopHandled>>
       ELSE IF ~IsValidPeopleSearchPage(loc)
       THEN /\ ev' = "startRejected"
            /\ UNCHANGED <<emptyRun, ss, loc, dom, phase, mem, timer, pipes, bgInbox,
                           popupInbox, popup, totalKnown, stopHandled>>
       ELSE \E o \in PageInfos(loc), throws \in BOOLEAN, n \in 0..MaxProfiles :
            LET cur == o.cur
                tot == o.tot
                m1 == InitializeScrapingStateMem(mem, cur, tot)
                s1 == InitializeScrapingStateStorage(ss, cur, tot)
                st == StopScrapingState(m1, timer, s1)
            IN /\ totalKnown' = o.known
               /\ stopHandled' = FALSE
               /\ emptyRun' = IF ~throws /\ n = 0 THEN 1 ELSE 0
               /\ IF throws
                  THEN /\ n = 0
                       /\ mem' = st.mem
                       /\ timer' = st.timer
                       /\ ss' = st.ss
                       /\ ev' = "startFailure"
                       /\ UNCHANGED <<pipes, bgInbox>>
                  ELSE /\ HasFreePipe
                       /\ Len(bgInbox) < MaxInbox
                       /\ mem' = m1
                       /\ ss' = s1
                       /\ bgInbox' = bgInbox \o SaveProfiles(n, FirstFreePipe)
                       /\ pipes' = [pipes EXCEPT ![FirstFreePipe] =
                            [FreePipe EXCEPT !.pc = "saving",
                                             !.kind = "start"]]
                       /\ ev' = "start"
                       /\ UNCHANGED timer
               /\ UNCHANGED <<loc, dom, phase, popupInbox, popup>>

\* START_SCRAPING is delivered to the page instance.
HandleStart == StartScraping /\ UNCHANGED still

\* STOP_SCRAPING handled by the page instance: stopScraping().
StopScraping ==
    /\ phase = "ready"
    /\ LET st == StopScrapingState(mem, timer, ss)
       IN /\ mem' = st.mem
          /\ timer' = st.timer
          /\ ss' = st.ss
    /\ stopHandled' = TRUE
    /\ emptyRun' = 0
    /\ ev' = "stop"
    /\ UNCHANGED <<loc, dom, phase, pipes, bgInbox, popupInbox, popup,
                   totalKnown>>

\* STOP_SCRAPING is delivered to the page instance.
HandleStop == StopScraping /\ UNCHANGED still

\* The settle delay elapses: the callback checkContinueScraping scheduled,
\* up to its first await.
ContinueCallback ==
    /\ phase = "ready"
    /\ timer = "pending"
    /\ IF IsScrapingStopped(ss)
       THEN /\ timer' = "fired"
            /\ ev' = "other"
            /\ UNCHANGED <<ss, mem, pipes, bgInbox, emptyRun>>
       ELSE \E throws \in BOOLEAN, n \in 0..MaxProfiles :
            LET st == StopScrapingState(mem, "fired", ss)
            IN IF throws
               THEN /\ n = 0
                    /\ mem' = st.mem
                    /\ timer' = st.timer
                    /\ ss' = st.ss
                    /\ ev' = "failure"
                    /\ UNCHANGED <<pipes, bgInbox, emptyRun>>
               ELSE /\ HasFreePipe
                    /\ Len(bgInbox) < MaxInbox
                    /\ timer' = "fired"
                    /\ bgInbox' = bgInbox \o SaveProfiles(n, FirstFreePipe)
                    /\ pipes' = [pipes EXCEPT ![FirstFreePipe] =
                         [FreePipe EXCEPT !.pc = "saving", !.kind = "cont"]]
                    /\ ev' = "extract"
                    /\ emptyRun' = IF n # 0 THEN 0
                                    ELSE IF emptyRun < EmptyPageThreshold
                                    THEN emptyRun + 1 ELSE emptyRun
                    /\ UNCHANGED <<ss, mem>>
    /\ UNCHANGED <<still, loc, dom, phase, popupInbox, popup, totalKnown,
                   stopHandled>>

\* navigateToNextPage that targets the current page once more.
NavigateToNextPageBegin_SamePage(p) ==
    IF IsScrapingStopped(ss)
    THEN /\ pipes' = [pipes EXCEPT ![p] = FreePipe]
         /\ ev' = "navCancelled"
         /\ UNCHANGED <<ss, mem, timer, bgInbox>>
    ELSE \E throws \in BOOLEAN :
         IF throws
         THEN LET st == StopScrapingState(mem, timer, ss)
              IN /\ mem' = st.mem
                 /\ timer' = st.timer
                 /\ ss' = st.ss
                 /\ pipes' = [pipes EXCEPT ![p] = FreePipe]
                 /\ ev' = "failure"
                 /\ UNCHANGED bgInbox
         ELSE /\ mem.currentPage < MaxPage
              /\ ss' = SetItem(SetItem(SetItem(ss,
                        ACTIVE, "true"),
                        CURRENT_PAGE, NumToString(mem.currentPage)),
                        TOTAL_PAGES, NumToString(mem.totalPages))
              /\ pipes' = [pipes EXCEPT ![p] =
                    [@ EXCEPT !.pc = "navDelay",
                              !.next = mem.currentPage,
                              !.url = loc.path]]
              /\ ev' = "continue"
              /\ UNCHANGED <<mem, timer, bgInbox>>

\* navigateToNextPage(currentPage, totalPages, true) up to its sleep, called
\* by pipeline p.  The page number is capped at MaxPage.
NavigateToNextPageBegin(p) ==
    IF IsScrapingStopped(ss)
    THEN /\ pipes' = [pipes EXCEPT ![p] = FreePipe]
         /\ ev' = "navCancelled"
         /\ UNCHANGED <<ss, mem, timer, bgInbox>>
    ELSE \E throws \in BOOLEAN :
         IF throws
         THEN LET st == StopScrapingState(mem, timer, ss)
              IN /\ mem' = st.mem
                 /\ timer' = st.timer
                 /\ ss' = st.ss
                 /\ pipes' = [pipes EXCEPT ![p] = FreePipe]
                 /\ ev' = "failure"
                 /\ UNCHANGED bgInbox
         ELSE /\ mem.currentPage < MaxPage
              /\ ss' = SetItem(SetItem(SetItem(ss,
                        ACTIVE, "true"),
                        CURRENT_PAGE, NumToString(mem.currentPage + 1)),
                        TOTAL_PAGES, NumToString(mem.totalPages))
              /\ pipes' = [pipes EXCEPT ![p] =
                    [@ EXCEPT !.pc = "navDelay",
                              !.next = mem.currentPage + 1,
                              !.url = loc.path]]
              /\ ev' = "continue"
              /\ UNCHANGED <<mem, timer, bgInbox>>

\* The completion branch without notifyScrapingComplete().
CompleteScraping_Silent(p) ==
    LET st == StopScrapingState(mem, timer, ss)
    IN /\ mem' = st.mem
       /\ timer' = st.timer
       /\ ss' = st.ss
       /\ pipes' = [pipes EXCEPT ![p] = FreePipe]
       /\ ev' = "complete"
       /\ UNCHANGED bgInbox

\* The completion branch without stopScraping().
CompleteScraping_KeepsSession(p) ==
    /\ Len(bgInbox) < MaxInbox
    /\ bgInbox' = Append(bgInbox, ScrapeDoneMsg)
    /\ pipes' = [pipes EXCEPT ![p] = FreePipe]
    /\ ev' = "complete"
    /\ UNCHANGED <<mem, timer, ss>>

\* The completion branch: stopScraping(), then notifyScrapingComplete().
CompleteScraping(p) ==
    LET st == StopScrapingState(mem, timer, ss)
    IN /\ Len(bgInbox) < MaxInbox
       /\ mem' = st.mem
       /\ timer' = st.timer
       /\ ss' = st.ss
       /\ bgInbox' = Append(bgInbox, ScrapeDoneMsg)
       /\ pipes' = [pipes EXCEPT ![p] = FreePipe]
       /\ ev' = "complete"

\* What pipeline p does once ensureNextButtonReady has returned: the
\* navigation decision of startScraping (kind "start") and of the resumed
\* callback (kind "cont"), in the same task as the return.
Decide(p) ==
    IF pipes[p].kind = "cont" /\ IsScrapingStopped(ss)
    THEN LET st == StopScrapingState(mem, timer, ss)
         IN /\ mem' = st.mem
            /\ timer' = st.timer
            /\ ss' = st.ss
            /\ pipes' = [pipes EXCEPT ![p] = FreePipe]
            /\ ev' = "stopEnd"
            /\ UNCHANGED bgInbox
    ELSE IF ShouldNavigate(mem.currentPage, mem.totalPages, HasNextPage(dom))
    THEN NavigateToNextPageBegin(p)
    ELSE CompleteScraping(p)

\* One round of ensureNextButtonReady's loop in pipeline p: return when the
\* Next control is ready or the tries are used up, else scroll and sleep.
EnsureNextButtonReadyRound(p) ==
    IF HasNextPage(dom) \/ pipes[p].tries >= DefaultMaxTries
    THEN /\ Decide(p)
         /\ UNCHANGED dom
    ELSE /\ dom' \in [next : NextChoices(loc)]
         /\ pipes' = [pipes EXCEPT ![p] =
                [@ EXCEPT !.pc = "polling", !.tries = @ + 1]]
         /\ ev' = "other"
         /\ UNCHANGED <<ss, mem, timer, bgInbox>>

\* chrome.runtime.sendMessage rejects in pipeline p (no receiving end): the
\* request is never handled and saveProfiles catches the error.
SaveTransportFails(p) ==
    /\ phase = "ready"
    /\ pipes[p].pc = "saving"
    /\ \E i \in 1..Len(bgInbox) :
        /\ bgInbox[i].from = p
        /\ bgInbox' = RemoveAt(bgInbox, i)
    /\ pipes' = [pipes EXCEPT ![p].pc = "unsaved"]
    /\ ev' = "other"
    /\ UNCHANGED <<still, emptyRun, ss, loc, dom, phase, mem, timer,
                   popupInbox, popup, totalKnown, stopHandled>>

\* The await of saveProfiles resolves, with a failed save ending the
\* session instead of being logged.
AfterSave_FailedSaveEndsSession(p) ==
    /\ phase = "ready"
    /\ pipes[p].pc \in {"saved", "unsaved"}
    /\ IF pipes[p].pc = "unsaved"
       THEN LET st == StopScrapingState(mem, timer, ss)
            IN /\ mem' = st.mem
               /\ timer' = st.timer
               /\ ss' = st.ss
               /\ pipes' = [pipes EXCEPT ![p] = FreePipe]
               /\ ev' = "failure"
               /\ UNCHANGED <<bgInbox, dom>>
       ELSE EnsureNextButtonReadyRound(p)
    /\ UNCHANGED <<still, emptyRun, loc, phase, popupInbox, popup,
                   totalKnown, stopHandled>>

\* The await of saveProfiles resolves in pipeline p, with the background's
\* response ("saved") or after a failure that saveProfiles only logs
\* ("unsaved"), and ensureNextButtonReady starts.
AfterSave(p) ==
    /\ phase = "ready"
    /\ pipes[p].pc \in {"saved", "unsaved"}
    /\ EnsureNextButtonReadyRound(p)
    /\ UNCHANGED <<still, emptyRun, loc, phase, popupInbox, popup, totalKnown, stopHandled>>

\* A sleep(800) of ensureNextButtonReady ends in pipeline p.
PollWake(p) ==
    /\ phase = "ready"
    /\ pipes[p].pc = "polling"
    /\ EnsureNextButtonReadyRound(p)
    /\ UNCHANGED <<still, emptyRun, loc, phase, popupInbox, popup, totalKnown, stopHandled>>

\* The randomized delay of navigateToNextPage ends in pipeline p: the final
\* check, then location.href = url.
NavWake(p) ==
    /\ phase = "ready"
    /\ pipes[p].pc = "navDelay"
    /\ IF NavigationStillWanted(ss)
       THEN /\ LoadDocument([path |-> pipes[p].url, query |-> TRUE,
                             page |-> pipes[p].next])
            /\ ev' = "navigate"
       ELSE /\ pipes' = [pipes EXCEPT ![p] = FreePipe]
            /\ ev' = "other"
            /\ UNCHANGED <<loc, dom, phase, mem, timer, bgInbox, stopHandled>>
    /\ UNCHANGED <<still, emptyRun, ss, popupInbox, popup, totalKnown>>

\* ------------------------------------------------------------- the user
\* The user loads or reloads a listing URL in the tab.
Reload ==
    /\ \E l \in {x \in Locations : ManifestMatches(x)} : LoadDocument(l)
    /\ ev' = "other"
    /\ UNCHANGED <<emptyRun, ss, popupInbox, popup, totalKnown>>

\* The user loads a listing URL.
UserLoad == Reload /\ UNCHANGED still

\* An in-page navigation (history.pushState): the location and the document
\* change, the page instance stays.
InPageNavigation ==
    /\ phase = "ready"
    /\ \E l \in Locations :
        /\ loc' = l
        /\ dom' \in [next : NextChoices(l)]
    /\ ev' = "other"
    /\ UNCHANGED <<emptyRun, ss, phase, mem, timer, pipes, bgInbox, popupInbox, popup,
                   totalKnown, stopHandled>>

\* The site navigates in the page.
PushState == InPageNavigation /\ UNCHANGED still

\* -------------------------------------------------------- background.js
\* The background's onMessage handler for the i-th waiting message.  A
\* SAVE_PROFILES is answered with success (and a SCRAPE_PROGRESS goes to the
\* popup) or, when the database throws, with success = false.
BgHandle(i) ==
    /\ i \in 1..Len(bgInbox)
    /\ Len(popupInbox) < MaxInbox
    /\ bgInbox' = RemoveAt(bgInbox, i)
    /\ IF bgInbox[i].type = "SAVE_PROFILES"
       THEN \E ok \in BOOLEAN :
            /\ popupInbox' = IF ok THEN Append(popupInbox, "SCRAPE_PROGRESS")
                             ELSE popupInbox
            /\ pipes' = IF bgInbox[i].from = 0 THEN pipes
                        ELSE [pipes EXCEPT ![bgInbox[i].from].pc =
                                IF ok THEN "saved" ELSE "unsaved"]
            /\ ev' = "other"
       ELSE /\ popupInbox' = Append(popupInbox, "SCRAPE_COMPLETE")
            /\ ev' = "relay"
            /\ UNCHANGED pipes
    /\ UNCHANGED <<still, emptyRun, ss, loc, dom, phase, mem, timer, popup,
                   totalKnown, stopHandled>>

\* ----------------------------------------------------------- popup.js
\* The popup's onMessage listener for the i-th waiting message.
PopupHandle(i) ==
    /\ i \in 1..Len(popupInbox)
    /\ popupInbox' = RemoveAt(popupInbox, i)
    /\ IF popupInbox[i] = "SCRAPE_COMPLETE"
       THEN popup' = [isScrapingActive |-> FALSE, message |-> "completed"]
       ELSE UNCHANGED popup
    /\ ev' = "other"
    /\ UNCHANGED <<still, emptyRun, ss, loc, dom, phase, mem, timer, pipes, bgInbox,
                   totalKnown, stopHandled>>

\* ---------------------------------------------------------- specification
Next ==
    \/ EntryInit
    \/ HandleStart
    \/ HandleStop
    \/ ContinueCallback
    \/ \E p \in 1..MaxPipes : SaveTransportFails(p)
    \/ \E p \in 1..MaxPipes : AfterSave(p)
    \/ \E p \in 1..MaxPipes : PollWake(p)
    \/ \E p \in 1..MaxPipes : NavWake(p)
    \/ UserLoad
    \/ PushState
    \/ \E i \in 1..MaxInbox : BgHandle(i)
    \/ \E i \in 1..MaxInbox : PopupHandle(i)

Spec == Init /\ [][Next]_vars

\* ====================================================== the validation loop
\* A profile link is a sequence of tokens: the path marker "/in/", a slug
\* character "a", a path separator "/" and the query separator "?".  The
\* empty sequence stands for a missing link (null or "").
Tokens == {"/in/", "a", "/", "?"}

Urls == UNION {[1..n -> Tokens] : n \in 0..MaxUrlLen}

\* [^/?]: a character that is neither "/" nor "?" (the marker starts with
\* "/").
IdChar(t) == t \notin {"/", "?", "/in/"}

\* cleanProfileUrl that also cuts a fragment.
CleanProfileUrl_CutsFragment(url) ==
    LET qs == {i \in 1..Len(url) : url[i] \in {"?", "#"}}
    IN IF qs = {} THEN url
       ELSE SubSeq(url, 1, (CHOOSE i \in qs : \A j \in qs : i <= j) - 1)

\* utils.js cleanProfileUrl(url): url.split("?")[0], null for a missing url.
CleanProfileUrl(url) ==
    LET qs == {i \in 1..Len(url) : url[i] = "?"}
    IN IF qs = {} THEN url
       ELSE SubSeq(url, 1, (CHOOSE i \in qs : \A j \in qs : i <= j) - 1)

\* extractProfileId that captures one character.
ExtractProfileId_FirstChar(url) ==
    LET starts == {i \in 1..(Len(url) - 1) :
                        url[i] = "/in/" /\ IdChar(url[i + 1])}
    IN IF starts = {} THEN <<>>
       ELSE LET i == CHOOSE x \in starts : \A y \in starts : x <= y
            IN SubSeq(url, i + 1, i + 1)

\* utils.js extractProfileId(url): the first match of /\/in\/([^/?]+)/, null
\* (the empty sequence) when there is none.
ExtractProfileId(url) ==
    LET starts == {i \in 1..(Len(url) - 1) :
                        url[i] = "/in/" /\ IdChar(url[i + 1])}
    IN IF starts = {} THEN <<>>
       ELSE LET i == CHOOSE x \in starts : \A y \in starts : x <= y
                ends == {j \in (i + 1)..Len(url) :
                            \A k \in (i + 1)..j : IdChar(url[k])}
                j == CHOOSE x \in ends : \A y \in ends : y <= x
            IN SubSeq(url, i + 1, j)

\* What extractSingleProfile hands to the validator for one result item,
\* with the texts extractAdditionalFields finds in the item ("" when no
\* selector yields any).
Candidates ==
    [profileLink : Urls, profileName : {"", "Ann"},
     headline : {"", "Eng"}, location : {"", "Oslo"}]

\* createValidatedProfile() that also rejects a candidate without a name.
CreateValidatedProfile_RequiresName(c, now) ==
    LET cleanUrl == CleanProfileUrl(c.profileLink)
        profileId == ExtractProfileId(cleanUrl)
    IN IF profileId = <<>> \/ cleanUrl = <<>> \/ c.profileName = ""
       THEN <<>>
       ELSE <<[id |-> profileId,
               name |-> c.profileName,
               url |-> cleanUrl,
               headline |-> IF c.headline = "" THEN "Headline not available"
                            ELSE c.headline,
               location |-> IF c.location = "" THEN "Location not available"
                            ELSE c.location,
               scrapedAt |-> now]>>

\* createValidatedProfile(profileData) at time now: <<>> for null, else the
\* one profile.
CreateValidatedProfile(c, now) ==
    LET cleanUrl == CleanProfileUrl(c.profileLink)
        profileId == ExtractProfileId(cleanUrl)
    IN IF profileId = <<>> \/ cleanUrl = <<>>
       THEN <<>>
       ELSE <<[id |-> profileId,
               name |-> IF c.profileName = "" THEN "Name not available"
                        ELSE c.profileName,
               url |-> cleanUrl,
               headline |-> IF c.headline = "" THEN "Headline not available"
                            ELSE c.headline,
               location |-> IF c.location = "" THEN "Location not available"
                            ELSE c.location,
               scrapedAt |-> now]>>

\* A page instance in which nothing happens.
SessionQuiet ==
    /\ ss = EmptyStorage
    /\ loc = [path |-> "people/", query |-> TRUE, page |-> 0]
    /\ dom = [next |-> FALSE]
    /\ phase = "ready"
    /\ mem = FreshMem
    /\ timer = "none"
    /\ pipes = NoPipes
    /\ bgInbox = <<>>
    /\ popupInbox = <<>>
    /\ popup = [isScrapingActive |-> FALSE, message |-> "none"]
    /\ totalKnown = FALSE
    /\ stopHandled = FALSE
    /\ ev = "other"
    /\ emptyRun = 0
    /\ overlap = FALSE

ValidatorInit ==
    /\ SessionQuiet
    /\ ValidatorIdle
    /\ StoreIdle
    /\ ImportIdle
    /\ DbInitIdle
    /\ LoaderIdle
    /\ RelayIdle
    /\ ReadyIdle
    /\ BridgeIdle
    /\ DelayIdle
    /\ ExtractorIdle
    /\ UrlIdle

\* One iteration of extractedProfiles.forEach in startScraping and in the
\* resumed callback: validate the candidate, push the profile if there is
\* one.
ValidateNext ==
    /\ iterations < MaxCands
    /\ request = <<>>
    /\ \E c \in Candidates, now \in 1..MaxClock :
        /\ profileData' = <<c>>
        /\ validatedProfiles' =
                validatedProfiles \o CreateValidatedProfile(c, now)
    /\ iterations' = iterations + 1
    /\ UNCHANGED <<request, exceptValidator>>

\* saveProfiles(validatedProfiles) after the loop: the request's data.
SaveValidated ==
    /\ request = <<>>
    /\ request' = <<validatedProfiles>>
    /\ UNCHANGED <<profileData, validatedProfiles, iterations,
                   exceptValidator>>

ValidatorNext == ValidateNext \/ SaveValidated

ValidatorSpec == ValidatorInit /\ [][ValidatorNext]_vars

\* ------------------------------------------------------- utils.js: urls
\* The url functions on the links of two result items.  "#" starts a
\* fragment.
UrlTokens == Tokens \cup {"#"}

UrlInputs == UNION {[1..n -> UrlTokens] : n \in 0..MaxUrlLen}

UrlInit ==
    /\ SessionQuiet
    /\ ValidatorIdle
    /\ StoreIdle
    /\ ImportIdle
    /\ DbInitIdle
    /\ LoaderIdle
    /\ RelayIdle
    /\ ReadyIdle
    /\ BridgeIdle
    /\ DelayIdle
    /\ ExtractorIdle
    /\ urlIn \in UrlInputs \X UrlInputs
    /\ cleanUrls = <<<<>>, <<>>>>
    /\ profileIds = <<<<>>, <<>>>>

\* createValidatedProfile calls cleanProfileUrl on the link of item k.
CleanUrlCall(k) ==
    /\ cleanUrls[k] = <<>>
    /\ \A j \in 1..(k - 1) : Len(profileIds[j]) = MaxCalls
    /\ cleanUrls' = [cleanUrls EXCEPT ![k] = <<CleanProfileUrl(urlIn[k])>>]
    /\ UNCHANGED <<urlIn, profileIds, exceptUrl>>

\* extractProfileId is called on the clean URL of item k.
ExtractIdCall(k) ==
    /\ cleanUrls[k] # <<>>
    /\ Len(profileIds[k]) < MaxCalls
    /\ profileIds' = [profileIds EXCEPT
                        ![k] = Append(@, ExtractProfileId(cleanUrls[k][1]))]
    /\ UNCHANGED <<urlIn, cleanUrls, exceptUrl>>

UrlNext ==
    \/ \E k \in 1..2 : CleanUrlCall(k)
    \/ \E k \in 1..2 : ExtractIdCall(k)

UrlSpec == UrlInit /\ [][UrlNext]_vars

\* ------------------------------------------------------------ extractor.js
\* resultSelectors, in order: the first strategy, whose matches are mapped
\* to their closest li, and two of the seven plain ones.
ResultSelectors ==
    <<"div[data-chameleon-result-urn]", "main ul li", "ul[role='list'] li">>

\* The li elements of a document, numbered in document order.
Elems == 1..MaxElems

\* The li elements of a set, in document order.
RECURSIVE InDocumentOrder(_)
InDocumentOrder(S) ==
    IF S = {} THEN <<>>
    ELSE LET e == CHOOSE x \in S : \A y \in S : x <= y
         IN  <<e>> \o InDocumentOrder(S \ {e})

\* What one document shows to the extractor.  chameleon: for every div the
\* first selector matches, its closest li, 0 when it has none; a result
\* item's li holds one such div.  plain: per plain selector, the li elements
\* it matches.  item: what extractSingleProfile meets in an li: a profile
\* link ("ok"), no link ("nolink"), or an exception ("throws").
Pages ==
    {pg \in [chameleon : UNION {[1..n -> Elems \cup {0}] : n \in 0..MaxElems},
             plain : [1..(Len(ResultSelectors) - 1) ->
                        {InDocumentOrder(S) : S \in SUBSET Elems}],
             item : [Elems -> {"ok", "nolink", "throws"}]] :
        \A i, j \in 1..Len(pg.chameleon) :
            (i # j /\ pg.chameleon[i] # 0)
            => pg.chameleon[i] # pg.chameleon[j]}

\* What the loop body of extractProfilesFromPage assigns to searchResults
\* for the selector with index s.
SelectorMatches(pg, s) ==
    IF ResultSelectors[s] = "div[data-chameleon-result-urn]"
    THEN SelectSeq(pg.chameleon, LAMBDA li : li # 0)
    ELSE pg.plain[s - 1]

\* The selector loop with matches added up over all selectors.
RECURSIVE LocateContainers_Accumulates(_, _)
LocateContainers_Accumulates(pg, s) ==
    IF s > Len(ResultSelectors) THEN <<>>
    ELSE SelectorMatches(pg, s) \o LocateContainers_Accumulates(pg, s + 1)

\* The selector loop from index s on: break at the first selector with a
\* match.
RECURSIVE LocateContainers(_, _)
LocateContainers(pg, s) ==
    IF s > Len(ResultSelectors) THEN <<>>
    ELSE IF Len(SelectorMatches(pg, s)) > 0 THEN SelectorMatches(pg, s)
    ELSE LocateContainers(pg, s + 1)

\* extractSingleProfile(result, index): <<>> for null, else the candidate
\* of the container.  An exception is caught inside.
ExtractSingleProfile(pg, result) ==
    IF pg.item[result] = "ok" THEN <<result>> ELSE <<>>

ExtractorInit ==
    /\ SessionQuiet
    /\ ValidatorIdle
    /\ StoreIdle
    /\ ImportIdle
    /\ DbInitIdle
    /\ LoaderIdle
    /\ RelayIdle
    /\ ReadyIdle
    /\ BridgeIdle
    /\ DelayIdle
    /\ UrlIdle
    /\ document \in Pages
    /\ searchResults = <<>>
    /\ extractedProfiles = <<>>
    /\ visited = 0
    /\ exPc = "start"

\* extractProfilesFromPage up to the forEach: the selector loop, and the
\* return of [] when nothing was found.
ExtractorLocate ==
    /\ exPc = "start"
    /\ searchResults' = LocateContainers(document, 1)
    /\ exPc' = IF Len(searchResults') = 0 THEN "returned" ELSE "items"
    /\ UNCHANGED <<document, extractedProfiles, visited, exceptExtractor>>

\* One iteration of the forEach in which an exception of the item leaves
\* through the catch of extractProfilesFromPage.
ExtractorItem_FailureAborts ==
    /\ exPc = "items"
    /\ visited < Len(searchResults)
    /\ IF document.item[searchResults[visited + 1]] = "throws"
       THEN /\ extractedProfiles' = <<>>
            /\ exPc' = "returned"
       ELSE /\ extractedProfiles' = extractedProfiles
                \o ExtractSingleProfile(document,
                                        searchResults[visited + 1])
            /\ exPc' = exPc
    /\ visited' = visited + 1
    /\ UNCHANGED <<document, searchResults, exceptExtractor>>

\* One iteration of searchResults.forEach: extractSingleProfile, push when
\* it returned a candidate.
ExtractorItem ==
    /\ exPc = "items"
    /\ visited < Len(searchResults)
    /\ extractedProfiles' = extractedProfiles
            \o ExtractSingleProfile(document, searchResults[visited + 1])
    /\ visited' = visited + 1
    /\ UNCHANGED <<document, searchResults, exPc, exceptExtractor>>

\* return extractedProfiles.
ExtractorReturn ==
    /\ exPc = "items"
    /\ visited = Len(searchResults)
    /\ exPc' = "returned"
    /\ UNCHANGED <<document, searchResults, extractedProfiles, visited,
                   exceptExtractor>>

ExtractorNext == ExtractorLocate \/ ExtractorItem \/ ExtractorReturn

ExtractorSpec == ExtractorInit /\ [][ExtractorNext]_vars

\* ------------------------------------------------ utils.js: getRandomDelay
\* getRandomDelay with twice the spread.
GetRandomDelay_Wide(k) == ((k * 2000) \div RandomGrain) + 500

\* getRandomDelay() when Math.random() returns k / RandomGrain, a number in
\* [0, 1): Math.floor(Math.random() * 1000) + 500.
GetRandomDelay(k) == ((k * 1000) \div RandomGrain) + 500

DelayInit ==
    /\ SessionQuiet
    /\ ValidatorIdle
    /\ StoreIdle
    /\ ImportIdle
    /\ DbInitIdle
    /\ LoaderIdle
    /\ RelayIdle
    /\ ReadyIdle
    /\ BridgeIdle
    /\ UrlIdle
    /\ ExtractorIdle
    /\ delay = <<>>

\* navigateToNextPage calls getRandomDelay() for its sleep.
GetRandomDelayCall ==
    /\ \E k \in 0..(RandomGrain - 1) : delay' = <<GetRandomDelay(k)>>
    /\ UNCHANGED exceptDelay

DelayNext == GetRandomDelayCall

DelaySpec == DelayInit /\ [][DelayNext]_vars

\* ------------------------------------------------------- messageBridge.js
\* The page instance with its runtime-message listener: the registrations
\* of initializeMessageBridge and what handleRuntimeMessage does with a
\* delivered message.  The pipelines a start suspends are not followed
\* here.

\* The one function initializeMessageBridge registers.
HandleRuntimeMessage == "handleRuntimeMessage"

\* Message types a sender can deliver: the two commands and one other.
MessageTypes == {"START_SCRAPING", "STOP_SCRAPING", "PING"}

\* sessionStorage as navigateToNextPage left it before a page load.
ResumableSession ==
    SetItem(SetItem(SetItem(EmptyStorage,
        ACTIVE, "true"),
        CURRENT_PAGE, NumToString(MaxPage)),
        TOTAL_PAGES, NumToString(MaxPage))

\* addListener that registers a function once more.
AddListener_Again(ls, f) == Append(ls, f)

\* chrome.runtime.onMessage.addListener(f): a function that is registered
\* already is not registered again.
AddListener(ls, f) ==
    IF \E i \in 1..Len(ls) : ls[i] = f THEN ls ELSE Append(ls, f)

\* The listeners after n calls of initializeMessageBridge().
RECURSIVE InitializeMessageBridge(_, _)
InitializeMessageBridge(ls, n) ==
    IF n = 0 THEN ls
    ELSE InitializeMessageBridge(AddListener(ls, HandleRuntimeMessage), n - 1)

BridgeInit ==
    /\ ss \in {EmptyStorage, StaleStoppedSession, ResumableSession}
    /\ loc \in {l \in Locations : ManifestMatches(l)}
    /\ dom \in [next : NextChoices(loc)]
    /\ phase = "loading"
    /\ mem = FreshMem
    /\ timer = "none"
    /\ pipes = NoPipes
    /\ bgInbox = <<>>
    /\ popupInbox = <<>>
    /\ popup = [isScrapingActive |-> FALSE, message |-> "none"]
    /\ totalKnown = FALSE
    /\ stopHandled = FALSE
    /\ ev = "other"
    /\ emptyRun = 0
    /\ overlap = FALSE
    /\ ValidatorIdle
    /\ StoreIdle
    /\ ImportIdle
    /\ DbInitIdle
    /\ LoaderIdle
    /\ RelayIdle
    /\ ReadyIdle
    /\ UrlIdle
    /\ ExtractorIdle
    /\ DelayIdle
    /\ BridgeIdle

\* initializeScraperSystem: the bridge is initialized, and once more by
\* checkContinueScraping when the session is resumed.
BridgeEntry ==
    /\ InitializeScraperSystem
    /\ LET n == IF ev' = "resume" THEN 2 ELSE 1
       IN /\ listeners' = InitializeMessageBridge(listeners, n)
          /\ inits' = n
    /\ response' = "none"
    /\ invoked' = "none"
    /\ delivered' = "none"
    /\ UNCHANGED <<bridgeTimers, exceptBridgeAndSession>>

\* handleRuntimeMessage whose default branch stops the session.
BridgeDeliver_UnknownStops(ty) ==
    /\ Len(listeners) = 1
    /\ delivered' = ty
    /\ IF ty = "START_SCRAPING"
       THEN /\ StartScraping
            /\ response' = "success"
            /\ invoked' = "startScraping"
       ELSE /\ StopScraping
            /\ response' = IF ty = "STOP_SCRAPING"
                           THEN "success" ELSE "Unknown message type"
            /\ invoked' = "stopScraping"
    /\ UNCHANGED <<listeners, bridgeTimers, inits, exceptBridgeAndSession>>

\* A message of type ty is delivered: every registered listener runs
\* handleRuntimeMessage.  With one listener: the switch on message.type.
BridgeDeliver(ty) ==
    /\ Len(listeners) = 1
    /\ delivered' = ty
    /\ IF ty = "START_SCRAPING"
       THEN /\ StartScraping
            /\ response' = "success"
            /\ invoked' = "startScraping"
       ELSE IF ty = "STOP_SCRAPING"
       THEN /\ StopScraping
            /\ response' = "success"
            /\ invoked' = "stopScraping"
       ELSE /\ response' = "Unknown message type"
            /\ invoked' = "none"
            /\ ev' = "unknown"
            /\ UNCHANGED <<ss, loc, dom, phase, mem, timer, pipes, bgInbox,
                           popupInbox, popup, totalKnown, stopHandled,
                           emptyRun>>
    /\ UNCHANGED <<listeners, bridgeTimers, inits, exceptBridgeAndSession>>

\* An in-page navigation; when the content script sees it (popstate, or its
\* own pushState), handleNavigation schedules a re-initialization.
BridgeNavigation ==
    /\ InPageNavigation
    /\ \E seen \in BOOLEAN :
        bridgeTimers' = IF seen /\ bridgeTimers < MaxInits
                        THEN bridgeTimers + 1 ELSE bridgeTimers
    /\ response' = "none"
    /\ invoked' = "none"
    /\ delivered' = "none"
    /\ UNCHANGED <<listeners, inits, exceptBridgeAndSession>>

\* The 500 ms timer of handleNavigation fires: initializeMessageBridge().
BridgeReinit ==
    /\ phase = "ready"
    /\ bridgeTimers > 0
    /\ bridgeTimers' = bridgeTimers - 1
    /\ listeners' = InitializeMessageBridge(listeners, 1)
    /\ inits' = IF inits < MaxInits THEN inits + 1 ELSE inits
    /\ response' = "none"
    /\ invoked' = "none"
    /\ delivered' = "none"
    /\ ev' = "other"
    /\ UNCHANGED <<ss, loc, dom, phase, mem, timer, pipes, bgInbox,
                   popupInbox, popup, totalKnown, stopHandled, emptyRun,
                   exceptBridgeAndSession>>

\* A full page load: the page instance and its listeners are gone.
BridgeLoad ==
    /\ Reload
    /\ listeners' = <<>>
    /\ bridgeTimers' = 0
    /\ inits' = 0
    /\ response' = "none"
    /\ invoked' = "none"
    /\ delivered' = "none"
    /\ UNCHANGED exceptBridgeAndSession

BridgeNext ==
    \/ BridgeEntry
    \/ \E ty \in MessageTypes : BridgeDeliver(ty)
    \/ BridgeNavigation
    \/ BridgeReinit
    \/ BridgeLoad

BridgeSpec == BridgeInit /\ [][BridgeNext]_vars

\* ------------------------------------------- ensureNextButtonReady alone
\* One call of ensureNextButtonReady(maxTries), with the Next control free
\* to appear or disappear while the call sleeps.

ReadyInit ==
    /\ SessionQuiet
    /\ ValidatorIdle
    /\ StoreIdle
    /\ ImportIdle
    /\ DbInitIdle
    /\ LoaderIdle
    /\ RelayIdle
    /\ UrlIdle
    /\ ExtractorIdle
    /\ DelayIdle
    /\ BridgeIdle
    /\ maxTries \in (0..MaxTriesArg) \cup {DefaultMaxTries}
    /\ tryIndex = 0
    /\ nextButton \in BOOLEAN
    /\ readyPc = "called"
    /\ waits = <<>>
    /\ lastCheck = <<>>
    /\ readyResult = <<>>

\* The guard at the top: without the sleep utility the call returns false.
ReadyBegin ==
    /\ readyPc = "called"
    /\ \E sleepDefined \in BOOLEAN :
        IF sleepDefined
        THEN /\ readyPc' = "loop"
             /\ UNCHANGED readyResult
        ELSE /\ readyPc' = "returned"
             /\ readyResult' = <<FALSE>>
    /\ UNCHANGED <<maxTries, tryIndex, nextButton, waits, lastCheck,
                   exceptReady>>

\* The loop that scrolls and sleeps even when it has seen the Next control.
ReadyRound_NoEarlyReturn ==
    /\ readyPc = "loop"
    /\ lastCheck' = <<nextButton>>
    /\ IF tryIndex < maxTries
       THEN /\ waits' = Append(waits, ScrollWait)
            /\ readyPc' = "sleeping"
            /\ UNCHANGED readyResult
       ELSE /\ readyResult' = <<nextButton>>
            /\ readyPc' = "returned"
            /\ UNCHANGED waits
    /\ UNCHANGED <<maxTries, tryIndex, nextButton, exceptReady>>

\* The loop test and one round: return true when hasNextPage(), else
\* scroll and sleep; after maxTries rounds the final check is returned.
ReadyRound ==
    /\ readyPc = "loop"
    /\ lastCheck' = <<nextButton>>
    /\ IF tryIndex < maxTries
       THEN IF nextButton
            THEN /\ readyResult' = <<TRUE>>
                 /\ readyPc' = "returned"
                 /\ UNCHANGED waits
            ELSE /\ waits' = Append(waits, ScrollWait)
                 /\ readyPc' = "sleeping"
                 /\ UNCHANGED readyResult
       ELSE /\ readyResult' = <<nextButton>>
            /\ readyPc' = "returned"
            /\ UNCHANGED waits
    /\ UNCHANGED <<maxTries, tryIndex, nextButton, exceptReady>>

\* sleep(800) resolves: i++, and the page may show or hide the control.
ReadySleepEnds ==
    /\ readyPc = "sleeping"
    /\ tryIndex' = tryIndex + 1
    /\ nextButton' \in BOOLEAN
    /\ readyPc' = "loop"
    /\ UNCHANGED <<maxTries, waits, lastCheck, readyResult, exceptReady>>

ReadyNext ==
    \/ ReadyBegin
    \/ ReadyRound
    \/ ReadySleepEnds

ReadySpec == ReadyInit /\ [][ReadyNext]_vars

\* ---------------------------------------- background.js: STOP_SCRAPING
\* The open tabs of the browser and the background's STOP_SCRAPING handler.
\* url: "listing" is a people-search page (the content script is injected
\* there), "linkedin" any other linkedin.com page, "other" any other site.
\* listening: the tab's document has run the content script, which has
\* registered the runtime-message listener; a listing tab that is loading
\* has no listener yet.  session: what the tab's sessionStorage says.

TabStates ==
    {r \in [url : {"listing", "linkedin", "other"}, active : BOOLEAN,
            listening : BOOLEAN, session : {"none", "active", "stopped"}] :
        /\ r.listening => r.url = "listing"
        /\ r.session # "none" => r.url = "listing"}

\* The tabs chrome.tabs.query({url: "*://*.linkedin.com/*"}) returns.
LinkedInTabs(ts) == {t \in DOMAIN ts : ts[t].url \in {"listing", "linkedin"}}

\* The tabs chrome.tabs.query({active: true, currentWindow: true}) returns.
ActiveTabs(ts) == {t \in DOMAIN ts : ts[t].active}

RelayInit ==
    /\ SessionQuiet
    /\ ValidatorIdle
    /\ StoreIdle
    /\ ImportIdle
    /\ DbInitIdle
    /\ LoaderIdle
    /\ UrlIdle
    /\ ExtractorIdle
    /\ DelayIdle
    /\ BridgeIdle
    /\ ReadyIdle
    /\ browserTabs \in [1..MaxTabs -> TabStates]
    /\ Cardinality(ActiveTabs(browserTabs)) = 1
    /\ stopInFlight = {}
    /\ stopResponse = <<>>

\* case "STOP_SCRAPING": tabs.sendMessage to every linkedin.com tab, then
\* the response with tabsNotified.
RelayStop ==
    /\ stopResponse = <<>>
    /\ stopInFlight' = LinkedInTabs(browserTabs)
    /\ stopResponse' = <<Cardinality(LinkedInTabs(browserTabs))>>
    /\ UNCHANGED <<browserTabs, exceptRelay>>

\* The message reaches tab t: a registered listener runs stopScraping(),
\* which stores the stopped flag; without a listener there is no receiving
\* end and the message is gone.
RelayDeliver(t) ==
    /\ t \in stopInFlight
    /\ stopInFlight' = stopInFlight \ {t}
    /\ browserTabs' =
        IF browserTabs[t].listening
        THEN [browserTabs EXCEPT ![t].session = "stopped"]
        ELSE browserTabs
    /\ UNCHANGED <<stopResponse, exceptRelay>>

\* navigateToNextPage of the session in tab t assigns location.href: the
\* document and its listener go away.
RelayTabNavigates(t) ==
    /\ browserTabs[t].listening
    /\ browserTabs[t].session = "active"
    /\ browserTabs' = [browserTabs EXCEPT ![t].listening = FALSE]
    /\ UNCHANGED <<stopInFlight, stopResponse, exceptRelay>>

\* The document of tab t has loaded: initializeScraperSystem registers the
\* listener, and checkContinueScraping goes on with an active session.
RelayTabLoaded(t) ==
    /\ browserTabs[t].url = "listing"
    /\ ~browserTabs[t].listening
    /\ browserTabs' = [browserTabs EXCEPT ![t].listening = TRUE]
    /\ UNCHANGED <<stopInFlight, stopResponse, exceptRelay>>

RelayNext ==
    \/ RelayStop
    \/ \E t \in 1..MaxTabs : RelayDeliver(t)
    \/ \E t \in 1..MaxTabs : RelayTabNavigates(t)
    \/ \E t \in 1..MaxTabs : RelayTabLoaded(t)

RelaySpec == RelayInit /\ [][RelayNext]_vars

\* ------------------------------------------ moduleLoader.js: ModuleLoader
\* One call of loadModulesWithRetry(), with the modules free to appear or
\* disappear while the call sleeps.

RECURSIVE Pow2(_)
Pow2(n) == IF n = 0 THEN 1 ELSE 2 * Pow2(n - 1)

ModuleStates == {"all", "optional", "critical"}

\* calculateRetryDelay() without the exponent.
CalculateRetryDelay_Flat(backoff, attempts) == RetryDelay

\* calculateRetryDelay()
CalculateRetryDelay(backoff, attempts) ==
    IF backoff THEN RetryDelay * Pow2(attempts - 1) ELSE RetryDelay

\* handleLoadFailure(): graceful degradation when no critical module is
\* missing, else the failure result.
HandleLoadFailure(missing) ==
    IF missing = "optional" THEN "degraded" ELSE "failure"

LoaderInit ==
    /\ SessionQuiet
    /\ ValidatorIdle
    /\ StoreIdle
    /\ ImportIdle
    /\ DbInitIdle
    /\ UrlIdle
    /\ ExtractorIdle
    /\ DelayIdle
    /\ BridgeIdle
    /\ ReadyIdle
    /\ RelayIdle
    /\ maxRetries \in 1..DefaultMaxRetries
    /\ exponentialBackoff \in BOOLEAN
    /\ loadAttempts = 1
    /\ failureReasons = <<>>
    /\ modules \in ModuleStates
    /\ loaderPc = "check"
    /\ loaderSleeps = <<>>
    /\ loadResult = "none"

\* One pass of the for loop up to its sleep: checkModuleAvailability(),
\* the return on success, the failure record, and either the retry sleep
\* or, after the last attempt, handleLoadFailure().
LoaderCheck ==
    /\ loaderPc = "check"
    /\ IF modules = "all"
       THEN /\ loadResult' = "success"
            /\ loaderPc' = "returned"
            /\ UNCHANGED <<failureReasons, loaderSleeps, loadAttempts>>
       ELSE /\ failureReasons' = Append(failureReasons, modules)
            /\ IF loadAttempts < maxRetries
               THEN /\ loaderSleeps' = Append(loaderSleeps,
                        [kind |-> "retry",
                         ms |-> CalculateRetryDelay(exponentialBackoff,
                                                    loadAttempts)])
                    /\ loaderPc' = "sleeping"
                    /\ UNCHANGED <<loadResult, loadAttempts>>
               ELSE /\ loadAttempts' = loadAttempts + 1
                    /\ loadResult' = HandleLoadFailure(modules)
                    /\ loaderPc' = "returned"
                    /\ UNCHANGED loaderSleeps
    /\ UNCHANGED <<maxRetries, exponentialBackoff, modules, exceptLoader>>

\* The retry sleep resolves: attemptModuleReload() starts its own sleep.
LoaderSleepEnds ==
    /\ loaderPc = "sleeping"
    /\ modules' \in ModuleStates
    /\ loaderSleeps' = Append(loaderSleeps,
                              [kind |-> "reload", ms |-> ReloadWait])
    /\ loaderPc' = "reloading"
    /\ UNCHANGED <<maxRetries, exponentialBackoff, loadAttempts,
                   failureReasons, loadResult, exceptLoader>>

\* attemptModuleReload() returns: loadAttempts++ and the next pass.
LoaderReloadEnds ==
    /\ loaderPc = "reloading"
    /\ modules' \in ModuleStates
    /\ loadAttempts' = loadAttempts + 1
    /\ loaderPc' = "check"
    /\ UNCHANGED <<maxRetries, exponentialBackoff, failureReasons,
                   loaderSleeps, loadResult, exceptLoader>>

LoaderNext ==
    \/ LoaderCheck
    \/ LoaderSleepEnds
    \/ LoaderReloadEnds

\* Every sleep of the loader resolves.
LoaderSpec == LoaderInit /\ [][LoaderNext]_vars /\ WF_vars(LoaderNext)

\* ------------------------------- background.js: ensureInitialization
\* The ProfileDatabase object from its construction on: the callers of
\* ensureInitialization (the constructor and the message handlers) and the
\* indexedDB.open requests behind init().

Callers == 0..MaxRequests

IdleCaller == [pc |-> "idle", promise |-> 0]

\* ensureInitialization() that starts init() whenever this.db is null.
EnsureInitializationEntry_AlwaysInit(open, initializing) ==
    IF open THEN "return" ELSE "init"

\* The two guards at the top of ensureInitialization().
EnsureInitializationEntry(open, initializing) ==
    IF open THEN "return"
    ELSE IF initializing THEN "share"
    ELSE "init"

\* new ProfileDatabase(): the constructor has called ensureInitialization.
DbInit ==
    /\ SessionQuiet
    /\ ValidatorIdle
    /\ StoreIdle
    /\ ImportIdle
    /\ UrlIdle
    /\ ExtractorIdle
    /\ DelayIdle
    /\ BridgeIdle
    /\ ReadyIdle
    /\ RelayIdle
    /\ LoaderIdle
    /\ dbOpen = FALSE
    /\ isInitializing = TRUE
    /\ initPromise = 1
    /\ promises = <<"pending">>
    /\ callers = [c \in Callers |->
                    IF c = 0 THEN [pc |-> "awaitOwn", promise |-> 1]
                    ELSE IdleCaller]

\* A message handler calls ensureInitialization(), up to its first await.
DbEnsureInitialization(c) ==
    /\ c # 0
    /\ callers[c].pc = "idle"
    /\ LET entry == EnsureInitializationEntry(dbOpen, isInitializing)
       IN IF entry = "return"
          THEN /\ callers' = [callers EXCEPT ![c].pc = "ready"]
               /\ UNCHANGED <<isInitializing, initPromise, promises>>
          ELSE IF entry = "share"
          THEN /\ callers' = [callers EXCEPT ![c] =
                    [pc |-> "awaitShared", promise |-> initPromise]]
               /\ UNCHANGED <<isInitializing, initPromise, promises>>
          ELSE /\ Len(promises) < MaxOpens
               /\ isInitializing' = TRUE
               /\ promises' = Append(promises, "pending")
               /\ initPromise' = Len(promises) + 1
               /\ callers' = [callers EXCEPT ![c] =
                    [pc |-> "awaitOwn", promise |-> Len(promises) + 1]]
    /\ UNCHANGED <<dbOpen, exceptDbInit>>

\* request.onsuccess of the k-th open: this.db is set, the promise resolves.
DbOpenSucceeds(k) ==
    /\ k \in 1..Len(promises)
    /\ promises[k] = "pending"
    /\ dbOpen' = TRUE
    /\ promises' = [promises EXCEPT ![k] = "resolved"]
    /\ UNCHANGED <<isInitializing, initPromise, callers, exceptDbInit>>

\* request.onerror of the k-th open: the promise rejects.
DbOpenFails(k) ==
    /\ k \in 1..Len(promises)
    /\ promises[k] = "pending"
    /\ promises' = [promises EXCEPT ![k] = "rejected"]
    /\ UNCHANGED <<dbOpen, isInitializing, initPromise, callers,
                   exceptDbInit>>

\* The await of caller c settles: the caller that started init() resets
\* isInitializing in its try or its catch; a caller that was handed the
\* promise just gets its outcome.
DbResume(c) ==
    /\ callers[c].pc \in {"awaitOwn", "awaitShared"}
    /\ promises[callers[c].promise] # "pending"
    /\ isInitializing' = IF callers[c].pc = "awaitOwn" THEN FALSE
                         ELSE isInitializing
    /\ callers' = [callers EXCEPT ![c].pc =
            IF promises[callers[c].promise] = "rejected" THEN "failed"
            ELSE IF c = 0 THEN "done" ELSE "ready"]
    /\ UNCHANGED <<dbOpen, initPromise, promises, exceptDbInit>>

\* The handler of caller c goes on to its database operation: a
\* transaction on this.db.
DbTransaction(c) ==
    /\ callers[c].pc = "ready"
    /\ callers' = [callers EXCEPT ![c].pc = "store"]
    /\ UNCHANGED <<dbOpen, isInitializing, initPromise, promises,
                   exceptDbInit>>

\* The handler of caller c has answered, with the result or the error; the
\* next request can take its place.
DbAnswered(c) ==
    /\ c # 0
    /\ callers[c].pc \in {"store", "failed"}
    /\ callers' = [callers EXCEPT ![c] = IdleCaller]
    /\ UNCHANGED <<dbOpen, isInitializing, initPromise, promises,
                   exceptDbInit>>

DbInitNext ==
    \/ \E c \in Callers : DbEnsureInitialization(c)
    \/ \E k \in 1..MaxOpens : DbOpenSucceeds(k)
    \/ \E k \in 1..MaxOpens : DbOpenFails(k)
    \/ \E c \in Callers : DbResume(c)
    \/ \E c \in Callers : DbTransaction(c)
    \/ \E c \in Callers : DbAnswered(c)

DbInitSpec == DbInit /\ [][DbInitNext]_vars

\* ------------------------------------------------- overlapping activations
\* The same page instance, with a start accepted while an earlier activation
\* of startScraping or of the resumed callback is still suspended at an await
\* (after a stop, scrapingInProgress is false again while the stopped
\* activation has not returned).  The tab begins on a listing URL with an
\* empty sessionStorage, and the user neither reloads nor triggers an in-page
\* navigation.
OverlapInit ==
    /\ ss = EmptyStorage
    /\ loc = [path |-> "people/", query |-> TRUE, page |-> 0]
    /\ dom \in [next : NextChoices(loc)]
    /\ phase = "loading"
    /\ mem = FreshMem
    /\ timer = "none"
    /\ pipes = NoPipes
    /\ bgInbox = <<>>
    /\ popupInbox = <<>>
    /\ popup = [isScrapingActive |-> FALSE, message |-> "none"]
    /\ totalKnown = FALSE
    /\ stopHandled = FALSE
    /\ ev = "other"
    /\ emptyRun = 0
    /\ overlap = TRUE
    /\ ValidatorIdle
    /\ StoreIdle
    /\ ImportIdle
    /\ DbInitIdle
    /\ LoaderIdle
    /\ RelayIdle
    /\ ReadyIdle
    /\ BridgeIdle
    /\ DelayIdle
    /\ ExtractorIdle
    /\ UrlIdle

OverlapNext ==
    \/ EntryInit
    \/ HandleStart
    \/ HandleStop
    \/ ContinueCallback
    \/ \E p \in 1..MaxPipes : SaveTransportFails(p)
    \/ \E p \in 1..MaxPipes : AfterSave(p)
    \/ \E p \in 1..MaxPipes : PollWake(p)
    \/ \E p \in 1..MaxPipes : NavWake(p)
    \/ \E i \in 1..MaxInbox : BgHandle(i)
    \/ \E i \in 1..MaxInbox : PopupHandle(i)

OverlapSpec == OverlapInit /\ [][OverlapNext]_vars

\* ------------------------------------------- background.js: ProfileDatabase
\* The SAVE_PROFILES handler seen from the database: several tabs send save
\* requests, the handler instances of the one background worker interleave at
\* their awaits.  IndexedDB runs the readwrite transactions of one object
\* store one after the other, so the puts of one putMany are one step.
\* IndexedDB requests succeed here; a failing one is the answer
\* success = false of BgHandle.

\* A stored profile: the key path and the time stamp that tells two saves of
\* the same profile apart.
Records == [id : 1..MaxIds, scrapedAt : 1..MaxClock]

RECURSIVE SeqsUpTo(_, _)
SeqsUpTo(S, n) ==
    IF n = 0 THEN {<<>>}
    ELSE LET shorter == SeqsUpTo(S, n - 1)
         IN  shorter \cup {Append(q, x) : q \in shorter, x \in S}

\* msg.data of a SAVE_PROFILES request.
Batches == SeqsUpTo(Records, MaxBatch)

\* store.put(profile) on an object store with keyPath "id" and add semantics:
\* a record under the same key stays.
StorePut_Adds(records, profile) == records \cup {profile}

\* store.put(profile) that empties the store first.
StorePut_ReplacesAll(records, profile) == {profile}

\* store.put(profile) on an object store with keyPath "id": the record stored
\* under the profile's id, if any, is replaced.
StorePut(records, profile) ==
    {r \in records : r.id # profile.id} \cup {profile}

\* The puts of one transaction, in the order of profiles.map.
RECURSIVE PutAll(_, _)
PutAll(records, profiles) ==
    IF profiles = <<>> THEN records
    ELSE PutAll(StorePut(records, Head(profiles)), Tail(profiles))

\* History: the last put of every id.
RECURSIVE WriteAll(_, _)
WriteAll(lw, profiles) ==
    IF profiles = <<>> THEN lw
    ELSE WriteAll([lw EXCEPT ![Head(profiles).id] = <<Head(profiles)>>],
                  Tail(profiles))

\* init: indexedDB.open succeeds; onupgradeneeded creates the object store if
\* the database has none.
DatabaseOpen ==
    /\ ~conn
    /\ conn' = TRUE
    /\ store' = [store EXCEPT !.exists = TRUE]
    /\ UNCHANGED <<handlers, lastWrite, exceptStore>>

\* db.onclose: the connection was closed unexpectedly.
DatabaseClose ==
    /\ conn
    /\ conn' = FALSE
    /\ UNCHANGED <<store, handlers, lastWrite, exceptStore>>

\* A SAVE_PROFILES handler that answers an empty list without the database.
SaveReceive_EmptyAnsweredAtOnce(t) ==
    /\ handlers[t].pc = "idle"
    /\ \E data \in Batches :
        handlers' = [handlers EXCEPT ![t] =
            [pc |-> IF data = <<>> THEN "done" ELSE "init",
             data |-> data, total |-> 0]]
    /\ UNCHANGED <<store, conn, lastWrite, exceptStore>>

\* A SAVE_PROFILES request of tab t arrives: the handler starts and awaits
\* db.ensureInitialization().
SaveReceive(t) ==
    /\ handlers[t].pc = "idle"
    /\ \E data \in Batches :
        handlers' = [handlers EXCEPT ![t] =
            [pc |-> "init", data |-> data, total |-> 0]]
    /\ UNCHANGED <<store, conn, lastWrite, exceptStore>>

\* ensureInitialization returned the open connection; the handler goes on to
\* putMany for a non-empty list, to getCount otherwise.
SaveEnsureInitialization(t) ==
    /\ handlers[t].pc = "init"
    /\ conn
    /\ handlers' = [handlers EXCEPT ![t].pc =
                        IF Len(handlers[t].data) > 0 THEN "put" ELSE "count"]
    /\ UNCHANGED <<store, conn, lastWrite, exceptStore>>

\* putMany: ensureReady, then one readwrite transaction with a put per profile.
SavePutMany(t) ==
    /\ handlers[t].pc = "put"
    /\ conn
    /\ store' = [store EXCEPT !.records = PutAll(@, handlers[t].data)]
    /\ lastWrite' = WriteAll(lastWrite, handlers[t].data)
    /\ handlers' = [handlers EXCEPT ![t].pc = "count"]
    /\ UNCHANGED <<conn, exceptStore>>

\* getCount, then sendResponse({success: true, saved, total}); saved is the
\* length of the list.
SaveRespond(t) ==
    /\ handlers[t].pc = "count"
    /\ conn
    /\ handlers' = [handlers EXCEPT ![t].pc = "done",
                                    ![t].total = Cardinality(store.records)]
    /\ UNCHANGED <<store, conn, lastWrite, exceptStore>>

\* The sender has its answer; the tab may send its next request.
SaveAnswered(t) ==
    /\ handlers[t].pc = "done"
    /\ handlers' = [handlers EXCEPT ![t] =
                        [pc |-> "idle", data |-> <<>>, total |-> 0]]
    /\ UNCHANGED <<store, conn, lastWrite, exceptStore>>

StoreInit ==
    /\ SessionQuiet
    /\ ValidatorIdle
    /\ StoreIdle
    /\ ImportIdle
    /\ DbInitIdle
    /\ LoaderIdle
    /\ RelayIdle
    /\ ReadyIdle
    /\ BridgeIdle
    /\ DelayIdle
    /\ ExtractorIdle
    /\ UrlIdle

StoreNext ==
    \/ DatabaseOpen
    \/ DatabaseClose
    \/ \E t \in 1..MaxTabs : SaveReceive(t)
    \/ \E t \in 1..MaxTabs : SaveEnsureInitialization(t)
    \/ \E t \in 1..MaxTabs : SavePutMany(t)
    \/ \E t \in 1..MaxTabs : SaveRespond(t)
    \/ \E t \in 1..MaxTabs : SaveAnswered(t)

StoreSpec == StoreInit /\ [][StoreNext]_vars

\* --------------------------------- popup.js / background.js: the import
\* One import: handleFileImport of the popup validates the parsed file and
\* sends IMPORT_JSON, the background's handler writes the records.

\* The id of a record in a file: 0 is an id that is missing or falsy,
\* 1..MaxIds are ids that are valid IndexedDB keys (strings, numbers), and
\* MaxIds + 1 is a truthy id that is no valid key (true, an object).
FileIds == 0..(MaxIds + 1)

IsValidKey(id) == id \in 1..MaxIds

\* A record of the file: its id, and whether name and url are truthy.
FileRecords == [id : FileIds, name : BOOLEAN, url : BOOLEAN, from : {"file"}]

\* What JSON.parse can return: something that is no array, or an array.
FileContents ==
    {[isArray |-> FALSE, records |-> <<>>]}
    \cup {[isArray |-> TRUE, records |-> q] :
            q \in SeqsUpTo(FileRecords, MaxFileLen)}

\* The required-field loop for one profile: !profile[field] for id, name, url.
HasRequiredFields(profile) ==
    profile.id # 0 /\ profile.name /\ profile.url

\* The validation of handleFileImport: Array.isArray and the field loop.
ImportValid(f) ==
    /\ f.isArray
    /\ \A i \in 1..Len(f.records) : HasRequiredFields(f.records[i])

\* putMany on the file's records: store.put throws DataError for a key
\* path value that is no valid key; the other puts of the transaction stay.
RECURSIVE ImportPutAll(_, _)
ImportPutAll(records, profiles) ==
    IF profiles = <<>> THEN records
    ELSE ImportPutAll(IF IsValidKey(Head(profiles).id)
                      THEN StorePut(records, Head(profiles))
                      ELSE records,
                      Tail(profiles))

ImportInit ==
    /\ SessionQuiet
    /\ ValidatorIdle
    /\ StoreIdle
    /\ UrlIdle
    /\ ExtractorIdle
    /\ DelayIdle
    /\ BridgeIdle
    /\ ReadyIdle
    /\ RelayIdle
    /\ LoaderIdle
    /\ DbInitIdle
    /\ importFile \in FileContents
    /\ importStore \in {{}, {[id |-> 1, name |-> TRUE, url |-> TRUE,
                              from |-> "store"]}}
    /\ importStore0 = importStore
    /\ importRequest = <<>>
    /\ importPc = "chosen"

\* handleFileImport: the validation, then the IMPORT_JSON request; a
\* validation error is caught and shown.
HandleFileImport ==
    /\ importPc = "chosen"
    /\ IF ImportValid(importFile)
       THEN /\ importRequest' = <<importFile.records>>
            /\ importPc' = "sent"
       ELSE /\ importPc' = "rejected"
            /\ UNCHANGED importRequest
    /\ UNCHANGED <<importFile, importStore, importStore0, exceptImport>>

\* case "IMPORT_JSON": db.import(msg.data), then the response; a put that
\* throws makes the response success = false.
ImportJson ==
    /\ importPc = "sent"
    /\ importStore' = ImportPutAll(importStore, importRequest[1])
    /\ importPc' = IF \A i \in 1..Len(importRequest[1]) :
                        IsValidKey(importRequest[1][i].id)
                   THEN "done" ELSE "failed"
    /\ UNCHANGED <<importFile, importStore0, importRequest, exceptImport>>

ImportNext ==
    \/ HandleFileImport
    \/ ImportJson

ImportSpec == ImportInit /\ [][ImportNext]_vars

\* ================================================================ claims
\* The step sent a message of type ty to the background.
Sent(ty) ==
    /\ Len(bgInbox') = Len(bgInbox) + 1
    /\ bgInbox'[Len(bgInbox')].type = ty

\* The background took a message of type ty out of its inbox.
Taken(ty) ==
    Cardinality({i \in 1..Len(bgInbox') : bgInbox'[i].type = ty})
        < Cardinality({i \in 1..Len(bgInbox) : bgInbox[i].type = ty})

\* sessionStorage holds no session: no active flag, no page keys.
SessionCleared(s) ==
    ACTIVE \notin DOMAIN s /\ CURRENT_PAGE \notin DOMAIN s
        /\ TOTAL_PAGES \notin DOMAIN s

\* C1: a page load that finds the stopped flag in sessionStorage resumes
\* nothing: the module variables keep their initial values, no settle timer
\* is scheduled, no pipeline (extraction, save, navigation) is started,
\* nothing is sent and sessionStorage and the location stay as they are,
\* whatever else sessionStorage holds.
C1_StoppedLoadIsTerminal ==
    [][(phase = "loading" /\ phase' = "ready" /\ GetItemIsTrue(ss, STOPPED))
        => /\ mem' = FreshMem
           /\ timer' = "none"
           /\ pipes' = NoPipes
           /\ bgInbox' = bgInbox
           /\ ss' = ss
           /\ loc' = loc
           /\ ev' = "load"]_vars

C1_Witness ==
    /\ ev = "load"
    /\ phase = "ready"
    /\ GetItemIsTrue(ss, STOPPED)
    /\ GetItemIsTrue(ss, ACTIVE)
    /\ CURRENT_PAGE \in DOMAIN ss

C3_StopDuringSettleDelay ==
    [][(stopHandled /\ stopHandled' /\ timer \in {"pending", "cancelled"})
        => (ev' # "extract" /\ ~Sent("SAVE_PROFILES"))]_vars

C3_Witness == stopHandled /\ timer = "cancelled"

\* C4: the step that handles a stop command leaves sessionStorage holding
\* the stopped flag and nothing else of the session; the stopped flag then
\* stays set, and a cleared session stays cleared beside it, in every step
\* (page loads and repeated stops included) that is not an accepted start.
C4_StopClearsAndSticks ==
    [][/\ (ev' = "stop" => (SessionCleared(ss') /\ GetItemIsTrue(ss', STOPPED)))
       /\ ((GetItemIsTrue(ss, STOPPED) /\ ev' \notin {"start", "startFailure"})
            => /\ GetItemIsTrue(ss', STOPPED)
               /\ SessionCleared(ss) => SessionCleared(ss'))]_vars

C4_Witness ==
    /\ ev = "stop"
    /\ GetItemIsTrue(ss, STOPPED)
    /\ \E p \in 1..MaxPipes : pipes[p].pc # "free"

\* C5: a start command handled on a page that is no listing page changes
\* neither the module variables nor sessionStorage and starts no pipeline,
\* sends nothing and navigates nowhere.
C5_StartOnlyOnListingPage ==
    [][(ev' \in {"start", "startFailure", "startIgnored", "startRejected"}
            /\ loc.path \notin {"people/", "people"})
        => UNCHANGED <<ss, loc, dom, phase, mem, timer, pipes, bgInbox>>]_vars

C5_Witness == ev = "startRejected" /\ loc.path = "other"

\* C6: a navigation decision that no stop and no exception pre-empts
\* continues to the next page exactly when (the session's total is known
\* and currentPage < totalPages) or an enabled Next control is detected,
\* and completes otherwise.
C6_ContinuationRule ==
    [][LET cont == (totalKnown /\ mem.currentPage < mem.totalPages)
                    \/ dom.next
       IN /\ (ev' = "continue" => cont)
          /\ (ev' = "complete" => ~cont)]_vars

C6_Witness == ev = "continue" /\ ~totalKnown /\ dom.next

\* C7: while a session whose total no pagination-indicator strategy yielded
\* is in progress, its totalPages is not 1.
C7_UnknownTotalIsNotOne ==
    (mem.scrapingInProgress /\ ~totalKnown) => mem.totalPages # 1

\* C8: the completing step clears the session from sessionStorage and sends
\* exactly one SCRAPE_DONE, and the background answers a SCRAPE_DONE by
\* sending SCRAPE_COMPLETE towards the popup.
C8_CompletionNotifiesOnce ==
    [][/\ (ev' = "complete"
            => (SessionCleared(ss') /\ bgInbox' = Append(bgInbox, ScrapeDoneMsg)))
       /\ (Taken("SCRAPE_DONE")
            => popupInbox' = Append(popupInbox, "SCRAPE_COMPLETE"))]_vars

C8_Witness ==
    /\ ev = "complete"
    /\ \E i \in 1..Len(bgInbox) : bgInbox[i].type = "SCRAPE_DONE"

\* C9: after an exception during extraction or navigation the session is
\* cleared from sessionStorage and a failure report is on its way to the
\* background.
C9_FailureIsReported ==
    ev \in {"failure", "startFailure"}
        => /\ SessionCleared(ss)
           /\ \E i \in 1..Len(bgInbox) :
                bgInbox[i].type \in {"SCRAPE_FAILED", "SCRAPE_ERRORED"}

\* C10: a page instance that has handled a stop command reports no
\* completion for the session the stop ended.
C10_StopNotReportedAsCompleted ==
    [][stopHandled => ~Sent("SCRAPE_DONE")]_vars

\* C11: once the extraction has yielded no valid profile on
\* EmptyPageThreshold consecutive pages of one session, page reloads
\* included, the session is over: nothing is in progress in the page
\* instance and sessionStorage holds no session to resume.
C11_EmptyPagesEndSession ==
    emptyRun >= EmptyPageThreshold
        => (~mem.scrapingInProgress /\ SessionCleared(ss))

\* C12: when the await of a failed save (transport error, or success =
\* false) resolves, the pipeline goes on as after a successful one: with the
\* Next control ready and no stop stored it begins the navigation (unless
\* navigateToNextPage itself throws), otherwise it starts the scroll loop;
\* the failure alone changes neither the module variables nor
\* sessionStorage.
C12_FailedSaveGoesOn ==
    [][\A p \in 1..MaxPipes :
        (pipes[p].pc = "unsaved" /\ pipes'[p].pc # "unsaved" /\ phase' = "ready"
            /\ loc' = loc)
        => IF HasNextPage(dom)
           THEN IsScrapingStopped(ss) \/ ev' \in {"continue", "failure"}
           ELSE /\ pipes'[p].pc = "polling"
                /\ mem' = mem
                /\ ss' = ss]_vars

C12_Witness ==
    /\ \E p \in 1..MaxPipes : pipes[p].pc = "unsaved"
    /\ phase = "ready"
    /\ HasNextPage(dom)
    /\ ~IsScrapingStopped(ss)
    /\ mem.scrapingInProgress
    /\ mem.currentPage < MaxPage

\* C13: every run of the per-page action (the extraction of startScraping
\* and of the resumed callback) sends exactly one SAVE_PROFILES, carrying
\* the page's valid profiles, also when there are none; no other step sends
\* a SAVE_PROFILES.
C13_OneSavePerPage ==
    [][/\ ev' \in {"start", "extract"}
            => \E n \in 0..MaxProfiles, p \in 1..MaxPipes :
                    bgInbox' = Append(bgInbox, SaveProfilesMsg(n, p))
       /\ Sent("SAVE_PROFILES") => ev' \in {"start", "extract"}]_vars

C13_Witness ==
    /\ ev = "extract"
    /\ bgInbox # <<>>
    /\ bgInbox[Len(bgInbox)].type = "SAVE_PROFILES"
    /\ bgInbox[Len(bgInbox)].data = 0
    /\ bgInbox[Len(bgInbox)].from # 0

\* C17: an iteration of the validation loop pushes nothing exactly when the
\* candidate's url or id cannot be derived; otherwise it pushes one profile
\* with that id and url, each given field kept and each missing one of
\* name, headline, location replaced by its placeholder.  The save request
\* carries exactly the pushed profiles, so a rejected candidate never
\* reaches the store.
C17_RejectOnlyWithoutIdOrUrl ==
    [][/\ iterations' = iterations + 1
            => LET c == profileData'[1]
                   url == CleanProfileUrl(c.profileLink)
                   id == ExtractProfileId(url)
                   n == Len(validatedProfiles')
               IN IF url = <<>> \/ id = <<>>
                  THEN validatedProfiles' = validatedProfiles
                  ELSE /\ n = Len(validatedProfiles) + 1
                       /\ SubSeq(validatedProfiles', 1, n - 1) = validatedProfiles
                       /\ validatedProfiles'[n].id = id
                       /\ validatedProfiles'[n].url = url
                       /\ validatedProfiles'[n].name =
                            (IF c.profileName = "" THEN "Name not available"
                             ELSE c.profileName)
                       /\ validatedProfiles'[n].headline =
                            (IF c.headline = "" THEN "Headline not available"
                             ELSE c.headline)
                       /\ validatedProfiles'[n].location =
                            (IF c.location = "" THEN "Location not available"
                             ELSE c.location)
       /\ request' # request => request' = <<validatedProfiles>>]_vars

C17_Witness ==
    /\ iterations = 2
    /\ request # <<>>
    /\ Len(request[1]) = 1
    /\ request[1][1].name = "Name not available"
    /\ request[1][1].headline = "Headline not available"
    /\ request[1][1].location = "Location not available"
    /\ request[1][1].id = <<"a", "a">>
    /\ profileData[1].profileLink = <<"?", "/in/", "a">>

\* The ids of the profiles of a save request.
IdsOf(b) == {b[k].id : k \in 1..Len(b)}

\* The last profile of a save request that has id i.
LastOf(b, i) ==
    b[CHOOSE k \in 1..Len(b) :
        b[k].id = i /\ \A j \in (k + 1)..Len(b) : b[j].id # i]

\* C14: a save request with an empty list is answered with success; no step
\* of its handler changes a stored record (so the count stays), and when the
\* answer is sent the object store exists and the reported total is the
\* number of stored records.
C14_EmptyUpsertKeepsStore ==
    [][\A t \in 1..MaxTabs :
        (/\ handlers'[t] # handlers[t]
         /\ handlers'[t].pc # "idle"
         /\ handlers'[t].data = <<>>)
        => /\ store'.records = store.records
           /\ handlers'[t].pc = "done"
              => /\ store'.exists
                 /\ handlers'[t].total = Cardinality(store.records)]_vars

\* An empty save request was answered while the store held a record.
C14_Witness ==
    \E t \in 1..MaxTabs :
        /\ handlers[t].pc = "done"
        /\ handlers[t].data = <<>>
        /\ store.exists
        /\ store.records # {}
        /\ handlers[t].total = Cardinality(store.records)

\* C15: saving a record whose id is already stored overwrites it: after
\* putMany the store holds, for every id of the request, exactly one record,
\* the last one the request carries for that id, and the count grew by the
\* number of ids that were not stored before (at most one for one record).
C15_SameIdOverwrites ==
    [][\A t \in 1..MaxTabs :
        (handlers[t].pc = "put" /\ handlers'[t].pc = "count")
        => LET b == handlers[t].data
               stored == {r.id : r \in store.records}
           IN  /\ \A i \in IdsOf(b) :
                    {r \in store'.records : r.id = i} = {LastOf(b, i)}
               /\ Cardinality(store'.records)
                    = Cardinality(store.records)
                      + Cardinality(IdsOf(b) \ stored)]_vars

\* Two requests saved the same id with different time stamps, both were
\* answered with a total of one, and the store holds the one record.
C15_Witness ==
    /\ handlers[1].pc = "done"
    /\ handlers[2].pc = "done"
    /\ handlers[1].data = <<[id |-> 1, scrapedAt |-> 1]>>
    /\ handlers[2].data = <<[id |-> 1, scrapedAt |-> 2]>>
    /\ handlers[1].total = 1
    /\ handlers[2].total = 1
    /\ store.records = {[id |-> 1, scrapedAt |-> 2]}

\* C16: with save requests of several tabs in flight at once, the store
\* holds exactly one record for every id ever written, the one of the last
\* write of that id, and nothing else.
C16_ConcurrentSavesLastWriteWins ==
    store.records
        = {lastWrite[i][1] : i \in {j \in 1..MaxIds : lastWrite[j] # <<>>}}

\* The handlers of two tabs have both written, neither has answered yet;
\* both wrote id 1 with different time stamps and one of them wrote id 2.
C16_Witness ==
    /\ handlers[1].pc = "count"
    /\ handlers[2].pc = "count"
    /\ handlers[1].data
         = <<[id |-> 1, scrapedAt |-> 2], [id |-> 2, scrapedAt |-> 1]>>
    /\ handlers[2].data = <<[id |-> 1, scrapedAt |-> 1]>>
    /\ store.records
         = {[id |-> 1, scrapedAt |-> 1], [id |-> 2, scrapedAt |-> 1]}

\* C19: whenever a page instance navigates to the next page, sessionStorage
\* already holds active = true, currentPage = the instance's page + 1 and the
\* session's totalPages, and the navigation targets exactly the persisted
\* page number.
C19_NavigationMatchesStorage ==
    [][ev' = "navigate"
       => /\ GetItemIsTrue(ss, ACTIVE)
          /\ CURRENT_PAGE \in DOMAIN ss
          /\ ss[CURRENT_PAGE] = NumToString(mem.currentPage + 1)
          /\ TOTAL_PAGES \in DOMAIN ss
          /\ ss[TOTAL_PAGES] = NumToString(mem.totalPages)
          /\ NumToString(loc'.page) = ss[CURRENT_PAGE]]_vars

\* C20: START_SCRAPING and STOP_SCRAPING are idempotent under duplicate
\* delivery: a START handled while a session is in progress is ignored, it
\* starts no pipeline, sends nothing and leaves memory, timer and storage as
\* they are; a STOP handled right after a STOP leaves memory, timer,
\* storage and the pipelines as the first left them.
C20_StartStopIdempotent ==
    [][/\ (/\ mem.scrapingInProgress
           /\ ev' \in {"start", "startIgnored", "startRejected",
                       "startFailure"})
          => /\ ev' = "startIgnored"
             /\ UNCHANGED <<ss, mem, timer, pipes, bgInbox, loc, dom>>
       /\ (ev = "stop" /\ ev' = "stop")
          => UNCHANGED <<ss, mem, timer, pipes, bgInbox, loc, dom>>]_vars

\* A START was ignored while a pipeline of the session in progress is
\* suspended.
C20_Witness ==
    /\ ev = "startIgnored"
    /\ mem.scrapingInProgress
    /\ GetItemIsTrue(ss, ACTIVE)
    /\ \E p \in 1..MaxPipes : pipes[p].pc \in {"saving", "polling", "navDelay"}
    /\ \E p \in 1..MaxPipes : pipes[p].pc = "free"

\* C18: within one page instance extraction is finished before the
\* continuation decision is made and the decision is made before navigation
\* is triggered, without overlap: an extraction begins only when no earlier
\* activation is between its extraction and its navigation, and a decision
\* or a navigation is made only when the activation that makes it is the
\* only one under way.
C18_ExtractDecideNavigateInOrder ==
    [][/\ ev' \in {"start", "extract"}
          => \A p \in 1..MaxPipes : pipes[p].pc = "free"
       /\ ev' \in {"continue", "complete"}
          => \E p \in 1..MaxPipes :
                /\ pipes[p].pc \in {"saved", "unsaved", "polling"}
                /\ \A q \in 1..MaxPipes \ {p} : pipes[q].pc = "free"
       /\ ev' = "navigate"
          => \E p \in 1..MaxPipes :
                /\ pipes[p].pc = "navDelay"
                /\ \A q \in 1..MaxPipes \ {p} : pipes[q].pc = "free"]_vars

\* C21: for every (non-empty) URL u, cleanProfileUrl(u) is the prefix of u
\* up to, and not including, the first "?"; a URL without "?" is returned
\* unchanged, and a fragment before any "?" is kept.
C21_CleanUrlIsPrefixBeforeQuery ==
    \A k \in 1..2 :
        (cleanUrls[k] # <<>> /\ urlIn[k] # <<>>)
        => LET u == urlIn[k]
               c == cleanUrls[k][1]
           IN /\ \E n \in 0..Len(u) :
                    /\ c = SubSeq(u, 1, n)
                    /\ \A i \in 1..n : u[i] # "?"
                    /\ n = Len(u) \/ u[n + 1] = "?"
              /\ (\A i \in 1..Len(u) : u[i] # "?") => c = u
              /\ \A i \in 1..Len(u) :
                    (u[i] = "#" /\ \A j \in 1..i : u[j] # "?")
                    => (i <= Len(c) /\ c[i] = "#")

\* A link with a fragment and then a query was cleaned: the fragment stayed.
C21_Witness ==
    /\ urlIn[1] = <<"a", "#", "?">>
    /\ cleanUrls[1] = <<<<"a", "#">>>>

\* A "/" or the "/" that begins the next marker ends a path segment.
EndsSegment(t) == t \in {"/", "/in/"}

\* C22: extractProfileId on a clean URL yields the path segment that
\* follows /in/, up to the next "/" or the end of the string (null when no
\* /in/ is followed by a segment); every call yields the same, and two
\* items with the same clean URL get the same id.
C22_IdIsSegmentAfterMarker ==
    /\ \A k \in 1..2 : \A c \in 1..Len(profileIds[k]) :
        LET u == cleanUrls[k][1]
            r == profileIds[k][c]
            marks == {i \in 1..(Len(u) - 1) :
                        u[i] = "/in/" /\ ~EndsSegment(u[i + 1])}
        IN /\ marks = {} => r = <<>>
           /\ marks # {}
              => \E i \in marks :
                    /\ \A x \in marks : i <= x
                    /\ r # <<>>
                    /\ r = SubSeq(u, i + 1, i + Len(r))
                    /\ \A x \in 1..Len(r) : ~EndsSegment(r[x])
                    /\ i + Len(r) = Len(u) \/ EndsSegment(u[i + Len(r) + 1])
           /\ r = profileIds[k][1]
    /\ (/\ cleanUrls[1] # <<>>
        /\ cleanUrls[1] = cleanUrls[2]
        /\ profileIds[1] # <<>>
        /\ profileIds[2] # <<>>)
       => profileIds[1][1] = profileIds[2][1]

\* Two different links with the same clean URL got the same id, the first
\* of them on two calls.
C22_Witness ==
    /\ urlIn[1] = <<"/in/", "a", "?">>
    /\ urlIn[2] = <<"/in/", "a">>
    /\ cleanUrls[1] = cleanUrls[2]
    /\ Len(profileIds[1]) = MaxCalls
    /\ Len(profileIds[2]) >= 1
    /\ profileIds[1][1] = <<"a">>
    /\ profileIds[2][1] = <<"a">>

C24_ItemFailureOmitsOnlyThatItem ==
    /\ exPc = "returned"
       => extractedProfiles
            = SelectSeq(searchResults, LAMBDA e : document.item[e] = "ok")
    /\ exPc = "items"
       => extractedProfiles
            = SelectSeq(SubSeq(searchResults, 1, visited),
                        LAMBDA e : document.item[e] = "ok")

\* The first container threw, the second was extracted.
C24_Witness ==
    /\ exPc = "returned"
    /\ searchResults = <<1, 2>>
    /\ document.item[1] = "throws"
    /\ document.item[2] = "ok"
    /\ extractedProfiles = <<2>>

\* C25: every delay getRandomDelay returns is an integer number of
\* milliseconds from 500 to 1500 inclusive.
C25_DelayInRange == delay # <<>> => delay[1] \in 500..1500

\* The longest delay: Math.random() just below 1.
C25_Witness == delay = <<1499>>

C28_StoppedLoopScrollsNoMore ==
    [][ \A p \in 1..MaxPipes :
          ( /\ pipes[p].pc = "polling"
            /\ IsScrapingStopped(ss)
            /\ stopHandled )
          => ~( /\ pipes'[p].pc = "polling"
                /\ pipes'[p].tries = pipes[p].tries + 1 ) ]_vars

\* C29: ensureNextButtonReady sleeps at most maxTries times, each time for
\* the same duration; a check that finds the Next control enabled ends the
\* call at once with true; and the call returns true exactly when its last
\* check of the control found it enabled.
C29_BoundedPollReturnsLastCheck ==
    /\ Len(waits) <= maxTries
    /\ tryIndex <= maxTries
    /\ \A k \in 1..Len(waits) : waits[k] = ScrollWait
    /\ lastCheck = <<TRUE>> => (readyPc = "returned" /\ readyResult = <<TRUE>>)
    /\ readyPc = "returned" => (readyResult = <<TRUE>> <=> lastCheck = <<TRUE>>)

\* All rounds of the default call were used and the final check found the
\* control enabled.
C29_Witness ==
    /\ readyPc = "returned"
    /\ maxTries = DefaultMaxTries
    /\ Len(waits) = DefaultMaxTries
    /\ readyResult = <<TRUE>>

C31_OnlyStartRestarts ==
    [][ /\ ev' = "start" =>
            (~IsScrapingStopped(ss') /\ GetItemIsTrue(ss', ACTIVE))
        /\ (IsScrapingStopped(ss) /\ ~IsScrapingStopped(ss')) =>
            (ev' = "start" /\ IsValidPeopleSearchPage(loc))
        /\ ( /\ phase = "loading"
             /\ phase' = "ready"
             /\ CheckShouldContinue(ss)
             /\ IsValidPeopleSearchPage(loc) ) => ev' = "resume"
      ]_vars

\* A resumed session was stopped before its callback ran (the timer was
\* cancelled), and a start was then accepted in the same page instance.
C31_Witness ==
    /\ ev = "start"
    /\ timer = "cancelled"
    /\ ~IsScrapingStopped(ss)
    /\ GetItemIsTrue(ss, ACTIVE)

\* C32: a STOP_SCRAPING the background receives is sent to every open
\* linkedin.com tab, active or not, and once all these messages have been
\* dealt with no tab has a session that is still active, a tab that was
\* loading its next page included.
C32_StopReachesEveryScrapingTab ==
    /\ stopResponse # <<>> =>
        stopResponse[1] = Cardinality(LinkedInTabs(browserTabs))
    /\ (stopResponse # <<>> /\ stopInFlight = {}) =>
        \A t \in DOMAIN browserTabs : browserTabs[t].session # "active"

\* The retry sleeps among the sleeps of the loader.
RetrySleeps == SelectSeq(loaderSleeps, LAMBDA sl : sl.kind = "retry")

C34_NeverActiveAndStopped ==
    ~(GetItemIsTrue(ss, ACTIVE) /\ GetItemIsTrue(ss, STOPPED))

\* A stop was handled while a pipeline that had stored the active flag was
\* in its pre-navigation delay: the stopped flag is stored, the active
\* flag is gone.
C34_Witness ==
    /\ \E p \in 1..MaxPipes : pipes[p].pc = "navDelay"
    /\ stopHandled
    /\ GetItemIsTrue(ss, STOPPED)
    /\ ~GetItemIsTrue(ss, ACTIVE)

\* Pipelines of the page instance that are pending or running.
BusyPipes == {p \in 1..MaxPipes : pipes[p].pc # "free"}

\* C35: a page instance never has more than one extraction-save-navigation
\* pipeline pending or running, also when a stop and then a start are
\* handled while an earlier pipeline waits in its pre-navigation delay or
\* in the scroll-and-poll loop.
C35_OnePipelinePerPageInstance ==
    Cardinality(BusyPipes) <= 1

\* C36: whenever a page load resumes a session, the currentPage restored
\* from sessionStorage is the page number of the listing URL that was
\* loaded.
C36_RestoredPageIsLoadedPage ==
    [][ ev' = "resume" => mem'.currentPage = ShownPage(loc') ]_vars

\* C37: a completed session stays completed.  The completion stores the
\* stopped flag and removes the active flag; and while the stopped flag is
\* stored and no pipeline of an earlier start is pending, no step resumes
\* the session, navigates, sends a completion notice or queues a save,
\* except the save of a newly accepted start.
C37_CompletedStaysCompleted ==
    [][ /\ ev' = "complete" =>
            (IsScrapingStopped(ss') /\ ~GetItemIsTrue(ss', ACTIVE))
        /\ (IsScrapingStopped(ss) /\ \A p \in 1..MaxPipes : pipes[p].pc = "free") =>
            /\ ev' \notin {"resume", "continue", "navigate", "complete"}
            /\ ev' # "start" => Len(bgInbox') <= Len(bgInbox)
      ]_vars

\* After the popup was told of the completion, an earlier page of the
\* listing is loaded and the content script stays idle there.
C37_Witness ==
    /\ popup.message = "completed"
    /\ IsScrapingStopped(ss)
    /\ ev = "load"
    /\ loc.page = 1
    /\ bgInbox = <<>>
    /\ \A p \in 1..MaxPipes : pipes[p].pc = "free"

\* The init() calls with the given outcome.
InitsThat(st) == {k \in 1..Len(promises) : promises[k] = st}

\* C38: requests that arrive while the database is not open share one
\* initialization: at most one open is pending, every waiting caller waits
\* for that one, the database is opened successfully at most once, a caller
\* touches the store only when the database is open, and after a failed
\* open the object is not left initializing, so the next request opens
\* again.
C38_OneSharedInitialization ==
    /\ Cardinality(InitsThat("pending")) <= 1
    /\ Cardinality(InitsThat("resolved")) <= 1
    /\ dbOpen => InitsThat("pending") = {}
    /\ \A c \in Callers :
        /\ callers[c].pc = "store" => dbOpen
        /\ ( /\ callers[c].pc \in {"awaitOwn", "awaitShared"}
             /\ promises[callers[c].promise] = "pending" )
           => callers[c].promise = initPromise
    /\ isInitializing => \E c \in Callers :
                            /\ callers[c].pc = "awaitOwn"
                            /\ callers[c].promise = initPromise

\* The first open failed for the constructor and for a request that shared
\* it; a later request opened again and now works on the store.
C38_Witness ==
    /\ promises = <<"rejected", "resolved">>
    /\ callers[0].pc = "failed"
    /\ \E c \in Callers : c # 0 /\ callers[c].pc = "store"
    /\ ~isInitializing

\* The record the file holds last for the id of its i-th record.
LastInFile(i) ==
    LET recs == importFile.records
        last == CHOOSE j \in 1..Len(recs) :
                    /\ recs[j].id = recs[i].id
                    /\ \A k \in (j + 1)..Len(recs) : recs[k].id # recs[i].id
    IN recs[last]

\* C39: an import is all-or-nothing at validation.  For a file that is no
\* array or holds a record without id, name or url, no IMPORT_JSON is sent
\* and the store stays as it was; for every other file the import ends with
\* every record of the file stored under its id.
C39_ImportAllOrNothing ==
    /\ ~ImportValid(importFile) =>
        (importRequest = <<>> /\ importStore = importStore0)
    /\ (ImportValid(importFile) /\ importPc \notin {"chosen", "sent"}) =>
        \A i \in 1..Len(importFile.records) : LastInFile(i) \in importStore

====
